---------------------------- MODULE Spec2Model ----------------------------
(***************************************************************************)
(* Model of the document-alignment repository:                             *)
(*   - LegalDocumentAligner._try_recover_partial_json  (src/alignment.py)  *)
(*   - LegalDocumentAligner.extract_sections           (src/alignment.py)  *)
(*   - TopicBasedAligner.extract_sections        (src/topic_alignment.py)  *)
(*   - POST /api/align and its alignment functions           (src/api.py)  *)
(* A Python str is a sequence of one-character strings.  Python indexes    *)
(* from 0 and the model from 1, so a Python index i is i + 1 here and the  *)
(* sentinel -1 (nothing found) is 0.                                       *)
(***************************************************************************)
EXTENDS Integers, Sequences, FiniteSets, TLC

VARIABLES
    \* ---- _try_recover_partial_json and its caller
    partial_json,     \* the argument of the call
    result,           \* the value returned by the last call
    rpc,              \* "call": about to call, "returned": the call returned
    calls,            \* number of calls made so far
    origin,           \* how the first argument was produced (history)
    \* ---- extract_sections
    variant,          \* "legal" (alignment.py) or "topic" (topic_alignment.py)
    document,         \* the argument
    lines,            \* document.split('\n')
    idx,              \* position of the for loop in lines
    current_section,  \* None is the empty sequence
    current_title,
    current_content,  \* list of lines
    sections,         \* the dict, in insertion order: <<key, title, body>>
    pc,               \* "start", "loop", "fallback", "done"
    log,              \* what the loop did with each line (history)
    \* ---- POST /api/align
    request,          \* the request: content type, fields, files
    env_key,          \* os.getenv('OPENAI_API_KEY'), None when unset
    api_key,          \* the local api_key of align_documents
    method,           \* the local method of align_documents
    invoked,          \* the alignment function called and the key it got
    upstream,         \* outcomes of the LLM calls of the request (history)
    res,              \* the dict returned by the alignment function
    response,         \* the response sent: status and body
    apc               \* "idle", "key", "docs", "dispatch", "align",
                      \* "respond", "sent"

recoverVars == <<partial_json, result, rpc, calls, origin>>
extractVars == <<variant, document, lines, idx, current_section,
                 current_title, current_content, sections, pc, log>>
apiVars == <<request, env_key, api_key, method, invoked, upstream, res,
             response, apc>>

\* no request is being served
ApiIdle ==
    /\ request = <<>>
    /\ env_key = <<>>
    /\ api_key = <<>>
    /\ method = <<>>
    /\ invoked = <<>>
    /\ upstream = <<>>
    /\ res = <<>>
    /\ response = <<>>
    /\ apc = "idle"

(***************************************************************************)
(* The other routines of the repository: their state                      *)
(***************************************************************************)
VARIABLES
    \* ---- the routines that decode an LLM reply
    routine,          \* the routine that decodes
    llm_reply,        \* the reply of the LLM call, and how it was built (history)
    json_str,         \* the local json_str
    recovery,         \* "not called", or the text _try_recover_partial_json returned
    decoded,          \* "ok": json.loads accepted the text, "failed": the routine gave up
    dpc,              \* "idle", "clean", "decode", "done"
    \* ---- ChunkedDocumentAligner.chunk_document
    chunk_size,       \* self.chunk_size
    overlap_size,     \* self.overlap_size
    document_text,    \* the argument document
    words,            \* document.split()
    chunks,           \* the list of (chunk_id, chunk_content)
    chunk_id,         \* the local chunk_id
    start_idx,        \* the local start_idx
    cpc,              \* "idle", "loop" (at the while test), "returned"
    \* ---- LegalDocumentAligner.run_batch_evaluation
    num_pairs,        \* the argument num_pairs
    pair_no,          \* the loop variable i
    results,          \* the list results
    evaluation_scores,\* the list evaluation_scores
    alignment,        \* how the last call of run_full_alignment ended (history)
    outcomes,         \* how each pair processed so far ended (history)
    bpc,              \* "idle", "loop", "report", "returned", "raised"
    \* ---- TopicBasedAligner.align_topics
    original_topics,  \* original_topics.topics
    variant_topics,   \* variant_topics.topics
    alignments,       \* the list alignments
    remaining,        \* the topic names the running for loop has not taken yet
    tpc,              \* "idle", "common", "only_original", "only_variant", "returned"
    \* ---- nda_direct_alignment.align_topics
    doc1_topic_list,  \* the argument doc1_topics (topic names)
    doc2_topic_list,  \* the argument doc2_topics (topic names)
    alignments_data,  \* the decoded reply: the records with their two indices
    record_no,        \* the number of records the for loop has taken
    nda_alignments,   \* the list alignments, each with the number of its record (history)
    caught,           \* the exception the except branch caught, or "none" (history)
    npc,              \* "idle", "loop", "returned"
    \* ---- the web application: POST /align
    web_key,          \* os.getenv("OPENAI_API_KEY"): "set" or "unset"
    uploads,          \* request.files: doc1 and doc2, each present or not, with filename and content
    web_method,       \* request.form.get("method", "section")
    texts,            \* how many of the two texts were extracted
    dispatched,       \* the alignment function called, or "none"
    web_response,     \* the response: status and error, or the result
    wpc               \* "idle", "validate", "extract", "dispatch", "sent"

decodeVars == <<routine, llm_reply, json_str, recovery, decoded, dpc>>
chunkVars == <<chunk_size, overlap_size, document_text, words, chunks,
               chunk_id, start_idx, cpc>>
batchVars == <<num_pairs, pair_no, results, evaluation_scores, alignment,
               outcomes, bpc>>
topicVars == <<original_topics, variant_topics, alignments, remaining, tpc>>
ndaVars == <<doc1_topic_list, doc2_topic_list, alignments_data, record_no,
             nda_alignments, caught, npc>>
webVars == <<web_key, uploads, web_method, texts, dispatched, web_response,
             wpc>>
lateVars == <<decodeVars, chunkVars, batchVars, topicVars, ndaVars,
              webVars>>
earlyVars == <<recoverVars, extractVars, apiVars>>
\* what the steps of decode leave alone
notDecode == <<earlyVars, chunkVars, batchVars, topicVars, ndaVars,
               webVars>>
\* what the steps of chunk leave alone
notChunk == <<earlyVars, decodeVars, batchVars, topicVars, ndaVars,
              webVars>>
\* what the steps of batch leave alone
notBatch == <<earlyVars, decodeVars, chunkVars, topicVars, ndaVars,
              webVars>>
\* what the steps of topic leave alone
notTopic == <<earlyVars, decodeVars, chunkVars, batchVars, ndaVars,
              webVars>>
\* what the steps of nda leave alone
notNda == <<earlyVars, decodeVars, chunkVars, batchVars, topicVars,
            webVars>>
\* what the steps of web leave alone
notWeb == <<earlyVars, decodeVars, chunkVars, batchVars, topicVars,
            ndaVars>>
vars == <<partial_json, result, rpc, calls, origin, variant, document,
          lines, idx, current_section, current_title, current_content,
          sections, pc, log, request, env_key, api_key, method, invoked,
          upstream, res, response, apc, routine, llm_reply, json_str,
          recovery, decoded, dpc, chunk_size, overlap_size, document_text,
          words, chunks, chunk_id, start_idx, cpc, num_pairs, pair_no,
          results, evaluation_scores, alignment, outcomes, bpc,
          original_topics, variant_topics, alignments, remaining, tpc,
          doc1_topic_list, doc2_topic_list, alignments_data, record_no,
          nda_alignments, caught, npc, web_key, uploads, web_method, texts,
          dispatched, web_response, wpc>>

DecodeIdle ==
    /\ routine = "none"
    /\ llm_reply = <<>>
    /\ json_str = <<>>
    /\ recovery = <<>>
    /\ decoded = "no"
    /\ dpc = "idle"

ChunkIdle ==
    /\ chunk_size = 0
    /\ overlap_size = 0
    /\ document_text = <<>>
    /\ words = <<>>
    /\ chunks = <<>>
    /\ chunk_id = 0
    /\ start_idx = 0
    /\ cpc = "idle"

BatchIdle ==
    /\ num_pairs = 0
    /\ pair_no = 0
    /\ results = <<>>
    /\ evaluation_scores = <<>>
    /\ alignment = <<>>
    /\ outcomes = <<>>
    /\ bpc = "idle"

TopicIdle ==
    /\ original_topics = <<>>
    /\ variant_topics = <<>>
    /\ alignments = <<>>
    /\ remaining = {}
    /\ tpc = "idle"

NdaIdle ==
    /\ doc1_topic_list = <<>>
    /\ doc2_topic_list = <<>>
    /\ alignments_data = <<>>
    /\ record_no = 0
    /\ nda_alignments = <<>>
    /\ caught = "none"
    /\ npc = "idle"

WebIdle ==
    /\ web_key = "unset"
    /\ uploads = <<>>
    /\ web_method = <<>>
    /\ texts = 0
    /\ dispatched = "none"
    /\ web_response = <<>>
    /\ wpc = "idle"

\* none of these routines is running
LateIdle ==
    /\ DecodeIdle
    /\ ChunkIdle
    /\ BatchIdle
    /\ TopicIdle
    /\ NdaIdle
    /\ WebIdle


(***************************************************************************)
(* Characters                                                              *)
(***************************************************************************)
Digit == {"0", "1", "2", "3", "4", "5", "6", "7", "8", "9"}
Upper == {"A", "B", "C", "D", "E", "F", "G", "H", "I", "J", "K", "L", "M",
          "N", "O", "P", "Q", "R", "S", "T", "U", "V", "W", "X", "Y", "Z"}
Lower == {"a", "b", "c", "d", "e", "f", "g", "h", "i", "j", "k", "l", "m",
          "n", "o", "p", "q", "r", "s", "t", "u", "v", "w", "x", "y", "z"}
\* \s of the re module and the characters str.strip() removes
Whitespace == {" ", "\n", "\t", "\r"}

SetMin(S) == CHOOSE m \in S : \A o \in S : m <= o
SetMax(S) == CHOOSE m \in S : \A o \in S : m >= o

\* s[i:] of Python for the model's index i (1-based)
From(s, i) == SubSeq(s, i, Len(s))

\* s.startswith(p)
StartsWith(s, p) == Len(s) >= Len(p) /\ SubSeq(s, 1, Len(p)) = p

\* s.strip()
strip(s) ==
    LET keep == {i \in 1..Len(s) : s[i] \notin Whitespace}
    IN  IF keep = {} THEN <<>> ELSE SubSeq(s, SetMin(keep), SetMax(keep))

(***************************************************************************)
(* json.loads, as far as it decides whether a text is valid JSON.          *)
(* Every operator takes the text and a position and returns the position   *)
(* after what it read, or 0 when the text is not valid there.              *)
(***************************************************************************)
JsonWs == {" ", "\n", "\t", "\r"}

JSkipWs(s, i) ==
    SetMin({j \in i..(Len(s) + 1) : j = Len(s) + 1 \/ s[j] \notin JsonWs})

\* the end of the run of digits that starts at i (i itself when there is none)
DigitsEnd(s, i) ==
    SetMin({j \in i..(Len(s) + 1) : j = Len(s) + 1 \/ s[j] \notin Digit})

JString(s, i) ==
    LET close == {k \in (i + 1)..Len(s) : s[k] = "\""}
    IN  IF close = {} THEN 0
        ELSE LET k == SetMin(close)
             IN  IF \E m \in (i + 1)..(k - 1) : s[m] \in {"\n", "\t", "\r"}
                 THEN 0 ELSE k + 1

\* NUMBER_RE of json.scanner: -?(0|[1-9]\d*)(\.\d+)?([eE][-+]?\d+)?
JNumber(s, i) ==
    LET d == IF s[i] = "-" THEN i + 1 ELSE i
    IN  IF d > Len(s) \/ s[d] \notin Digit THEN 0
        ELSE LET e == IF s[d] = "0" THEN d + 1 ELSE DigitsEnd(s, d)
                 f == IF e + 1 <= Len(s) /\ s[e] = "." /\ s[e + 1] \in Digit
                      THEN DigitsEnd(s, e + 1) ELSE e
                 g == IF f + 1 <= Len(s) /\ s[f] \in {"e", "E"}
                         /\ s[f + 1] \in {"+", "-"} THEN f + 2 ELSE f + 1
             IN  IF f <= Len(s) /\ s[f] \in {"e", "E"}
                    /\ g <= Len(s) /\ s[g] \in Digit
                 THEN DigitsEnd(s, g) ELSE f

JLiterals == {<<"t", "r", "u", "e">>, <<"f", "a", "l", "s", "e">>,
              <<"n", "u", "l", "l">>, <<"N", "a", "N">>,
              <<"I", "n", "f", "i", "n", "i", "t", "y">>,
              <<"-", "I", "n", "f", "i", "n", "i", "t", "y">>}

JLiteral(s, i) ==
    LET hit == {w \in JLiterals : StartsWith(From(s, i), w)}
    IN  IF hit = {} THEN 0 ELSE i + Len(CHOOSE w \in hit : TRUE)

RECURSIVE JValue(_, _), JArrayRest(_, _), JObjectRest(_, _)
JValue(s, i) ==
    IF i > Len(s) THEN 0
    ELSE IF s[i] = "\"" THEN JString(s, i)
    ELSE IF s[i] = "[" THEN
        LET j == JSkipWs(s, i + 1)
        IN  IF j <= Len(s) /\ s[j] = "]" THEN j + 1 ELSE JArrayRest(s, j)
    ELSE IF s[i] = "{" THEN
        LET j == JSkipWs(s, i + 1)
        IN  IF j <= Len(s) /\ s[j] = "}" THEN j + 1 ELSE JObjectRest(s, j)
    ELSE IF JNumber(s, i) # 0 THEN JNumber(s, i)
    ELSE JLiteral(s, i)

\* the elements of an array from the element at i to the closing bracket
JArrayRest(s, i) ==
    LET e == JValue(s, i)
    IN  IF e = 0 THEN 0
        ELSE LET j == JSkipWs(s, e)
             IN  IF j > Len(s) THEN 0
                 ELSE IF s[j] = "]" THEN j + 1
                 ELSE IF s[j] = "," THEN JArrayRest(s, JSkipWs(s, j + 1))
                 ELSE 0

\* the members of an object from the key at i to the closing brace
JObjectRest(s, i) ==
    IF i > Len(s) \/ s[i] # "\"" THEN 0
    ELSE LET k == JString(s, i)
         IN  IF k = 0 THEN 0
             ELSE LET c == JSkipWs(s, k)
                  IN  IF c > Len(s) \/ s[c] # ":" THEN 0
                      ELSE LET v == JValue(s, JSkipWs(s, c + 1))
                           IN  IF v = 0 THEN 0
                               ELSE LET m == JSkipWs(s, v)
                                    IN  IF m > Len(s) THEN 0
                                        ELSE IF s[m] = "}" THEN m + 1
                                        ELSE IF s[m] = ","
                                        THEN JObjectRest(s, JSkipWs(s, m + 1))
                                        ELSE 0

\* json.loads(s) returns (TRUE) or raises JSONDecodeError (FALSE)
json_loads_ok(s) ==
    LET e == JValue(s, JSkipWs(s, 1))
    IN  e # 0 /\ JSkipWs(s, e) = Len(s) + 1

(***************************************************************************)
(* _try_recover_partial_json                                               *)
(***************************************************************************)
\* the test made on every '}' after brace_count was decremented
IsCompleteObjectFirstLevelOnly(brace_count, bracket_count) ==
    brace_count = 0 /\ bracket_count >= 1
IsCompleteObject(brace_count, bracket_count) ==
    brace_count = 0 /\ bracket_count = 1

\* the for loop over the characters, from position i on
RECURSIVE ScanFrom(_, _, _, _, _)
ScanFrom(s, i, bracket_count, brace_count, last_complete_idx) ==
    IF i > Len(s) THEN last_complete_idx
    ELSE IF s[i] = "[" THEN
        ScanFrom(s, i + 1, bracket_count + 1, brace_count, last_complete_idx)
    ELSE IF s[i] = "]" THEN
        ScanFrom(s, i + 1, bracket_count - 1, brace_count, last_complete_idx)
    ELSE IF s[i] = "{" THEN
        ScanFrom(s, i + 1, bracket_count, brace_count + 1, last_complete_idx)
    ELSE IF s[i] = "}" THEN
        ScanFrom(s, i + 1, bracket_count, brace_count - 1,
                 IF IsCompleteObject(brace_count - 1, bracket_count)
                 THEN i ELSE last_complete_idx)
    ELSE ScanFrom(s, i + 1, bracket_count, brace_count, last_complete_idx)

\* partial_json[:last_complete_idx + 1] + ']'
RecoveredNoTruncation(s, last_complete_idx) == s \o <<"]">>
Recovered(s, last_complete_idx) == SubSeq(s, 1, last_complete_idx) \o <<"]">>

\* the whole function; "" is the empty sequence
try_recover_partial_json(s) ==
    IF ~StartsWith(s, <<"[">>) THEN <<>>
    ELSE LET last_complete_idx == ScanFrom(s, 1, 0, 0, 0)
         IN  IF last_complete_idx # 0
             THEN LET recovered == Recovered(s, last_complete_idx)
                  IN  IF json_loads_ok(recovered) THEN recovered ELSE <<>>
             ELSE <<>>

(***************************************************************************)
(* The regular expressions of the two extract_sections.  A match is a      *)
(* record: ok, the section number (group 1) and the title (group 2,        *)
(* stripped as the code strips it).                                        *)
(***************************************************************************)
NoMatch == [ok |-> FALSE, num |-> <<>>, title |-> <<>>]
Match(num, title) == [ok |-> TRUE, num |-> num, title |-> title]

\* \w of the re module
WordChar == Digit \cup Upper \cup Lower \cup {"_"}

\* the end of the run of characters of class C that starts at i
RunEnd(s, i, C) ==
    SetMin({j \in i..(Len(s) + 1) : j = Len(s) + 1 \/ s[j] \notin C})

AllIn(s, from, to, C) == \A k \in from..to : s[k] \in C

\* \d+
IsNumber(t) == Len(t) >= 1 /\ AllIn(t, 1, Len(t), Digit)

\* \d+(?:\.\d+)*
IsDottedNumber(t) ==
    /\ Len(t) >= 1
    /\ AllIn(t, 1, Len(t), Digit \cup {"."})
    /\ t[1] \in Digit
    /\ t[Len(t)] \in Digit
    /\ \A k \in 1..(Len(t) - 1) : ~(t[k] = "." /\ t[k + 1] = ".")

\* the positions e where a number ends (e is the position after it) that
\* starts at position i and is followed by a period and whitespace; the
\* number is \d+(?:\.\d+)* when dotted, \d+ otherwise
NumberEnds(s, i, dotted) ==
    {e \in (i + 1)..(Len(s) - 1) :
        /\ s[e] = "."
        /\ s[e + 1] \in Whitespace
        /\ IF dotted THEN IsDottedNumber(SubSeq(s, i, e - 1))
                     ELSE IsNumber(SubSeq(s, i, e - 1))}

\* ---- alignment.py, line 118: ^\*\*(\d+)\.\s+([A-Z][A-Z\s\-\/]+)\*\*$
\* ---- alignment.py, line 119: ^(\d+)\.\s+([A-Z][A-Z\s\-\/]+)$
LegalTitleChar == Upper \cup Whitespace \cup {"-", "/"}

LegalMainFrom(s, i, last) ==
    LET ends == NumberEnds(s, i, FALSE)
    IN  IF ends = {} THEN NoMatch
        ELSE LET e == CHOOSE x \in ends : TRUE
                 t == RunEnd(s, e + 1, Whitespace)
             IN  IF /\ t + 1 <= last
                    /\ s[t] \in Upper
                    /\ AllIn(s, t + 1, last, LegalTitleChar)
                 THEN Match(SubSeq(s, i, e - 1), strip(SubSeq(s, t, last)))
                 ELSE NoMatch

LegalBold(s) ==
    IF Len(s) >= 4 /\ s[1] = "*" /\ s[2] = "*"
       /\ s[Len(s) - 1] = "*" /\ s[Len(s)] = "*"
    THEN LegalMainFrom(s, 3, Len(s) - 2)
    ELSE NoMatch

LegalBare(s) == LegalMainFrom(s, 1, Len(s))

\* main_section_match: the bold form, or else the bare form
main_section_matchBareOnly(s) == LegalBare(s)
main_section_match(s) ==
    IF LegalBold(s).ok THEN LegalBold(s) ELSE LegalBare(s)

\* ---- alignment.py, line 132: ^(\d+\.\d+(?:\.\d+)*)\s+(.+)$
\* title holds group 2 (subsection_content, stripped)
IsSubNumber(t) == IsDottedNumber(t) /\ \E k \in 1..Len(t) : t[k] = "."

subsection_match(s) ==
    LET ends == {e \in 2..Len(s) :
                    s[e] \in Whitespace /\ IsSubNumber(SubSeq(s, 1, e - 1))}
    IN  IF ends = {} THEN NoMatch
        ELSE LET e == CHOOSE x \in ends : TRUE
                 t == RunEnd(s, e, Whitespace)
             IN  IF t <= Len(s) /\ \A k \in t..Len(s) : s[k] # "\n"
                 THEN Match(SubSeq(s, 1, e - 1), strip(From(s, t)))
                 ELSE NoMatch

\* ---- alignment.py, line 147: [\*"]*([^"*:]+)[\*"]*[:]*\s*(.*)
\* applied to subsection_content; rest is group 2 (remaining_content)
SubTitleMax == 50
QuoteOrStar == {"*", "\""}

title_match(c) ==
    LET a == RunEnd(c, 1, QuoteOrStar)
        b == SetMin({j \in a..(Len(c) + 1) :
                        j = Len(c) + 1 \/ c[j] \in QuoteOrStar \cup {":"}})
        d == RunEnd(c, RunEnd(c, RunEnd(c, b, QuoteOrStar), {":"}), Whitespace)
    IN  IF b > a
        THEN [ok |-> TRUE, title |-> strip(SubSeq(c, a, b - 1)),
              rest |-> strip(From(c, d))]
        ELSE [ok |-> FALSE, title |-> <<>>, rest |-> <<>>]

\* subsection_content[:50] + "..." if it is longer than 50, else all of it
ShortTitle(c) ==
    IF Len(c) > SubTitleMax
    THEN SubSeq(c, 1, SubTitleMax) \o <<".", ".", ".">>
    ELSE c

\* the title and the first content of a subsection (lines 146 to 154)
SubsectionStart(c) ==
    IF title_match(c).ok
    THEN [title |-> title_match(c).title,
          content |-> IF title_match(c).rest # <<>>
                      THEN <<title_match(c).rest>> ELSE <<>>]
    ELSE [title |-> ShortTitle(c), content |-> <<>>]

\* ---- topic_alignment.py, line 204: ^\*\*(\d+(?:\.\d+)*)\.\s+(.+?)\*\*$
TopicBold(s) ==
    LET n == Len(s)
        ends == IF n >= 2 /\ s[1] = "*" /\ s[2] = "*"
                THEN NumberEnds(s, 3, TRUE) ELSE {}
    IN  IF ends = {} \/ s[n - 1] # "*" \/ s[n] # "*" THEN NoMatch
        ELSE LET e == CHOOSE x \in ends : TRUE
                 \* \s+ gives whitespace back until a title of one character fits
                 starts == {t \in (e + 2)..RunEnd(s, e + 1, Whitespace) :
                               /\ t <= n - 2
                               /\ \A k \in t..(n - 2) : s[k] # "\n"}
             IN  IF starts = {} THEN NoMatch
                 ELSE Match(SubSeq(s, 3, e - 1),
                            strip(SubSeq(s, SetMax(starts), n - 2)))

\* ---- topic_alignment.py, line 208:
\*      ^(\d+(?:\.\d+)*)\.\s+([A-Z][^\n]{2,100})\.?\s*$
TitleMinMore == 2
TitleMaxMoreOneLess == 100 - 1
TitleMaxMore == 100

\* \.?\s*$ from position q
IsTitleEnd(s, q) ==
    \/ AllIn(s, q, Len(s), Whitespace)
    \/ q <= Len(s) /\ s[q] = "." /\ AllIn(s, q + 1, Len(s), Whitespace)

TopicBare(s) ==
    LET n == Len(s)
        ends == NumberEnds(s, 1, TRUE)
    IN  IF ends = {} THEN NoMatch
        ELSE LET e == CHOOSE x \in ends : TRUE
                 t == RunEnd(s, e + 1, Whitespace)
                 \* the title is s[t..q-1]; the longest that fits is taken
                 stops == {q \in (t + 1 + TitleMinMore)..(t + 1 + TitleMaxMore) :
                              /\ q <= n + 1
                              /\ IsTitleEnd(s, q)
                              /\ \A k \in (t + 1)..(q - 1) : s[k] # "\n"}
             IN  IF t <= n /\ s[t] \in Upper /\ stops # {}
                 THEN Match(SubSeq(s, 1, e - 1),
                            strip(SubSeq(s, t, SetMax(stops) - 1)))
                 ELSE NoMatch

\* ---- topic_alignment.py, line 213 (re.search, anywhere in the line):
\*      \b(\d+)\.\s+([A-Z][A-Za-z\s]{3,80})\s*\.?\s*(?:\s|$)
LooseMinMore == 3
LooseMaxMore == 80
LooseTitleChar == Upper \cup Lower \cup Whitespace

AtEndOrSpace(s, q) == q = Len(s) + 1 \/ (q <= Len(s) /\ s[q] \in Whitespace)

\* \s*\.?\s*(?:\s|$) from position q
IsLooseEnd(s, q) ==
    \/ AtEndOrSpace(s, q)
    \/ LET a == RunEnd(s, q, Whitespace)
       IN  a <= Len(s) /\ s[a] = "." /\ AtEndOrSpace(s, a + 1)

\* the match that starts at position p, if any
TopicLooseAt(s, p) ==
    IF ~(s[p] \in Digit /\ (p = 1 \/ s[p - 1] \notin WordChar)) THEN NoMatch
    ELSE LET d == RunEnd(s, p, Digit)
             t == RunEnd(s, d + 1, Whitespace)
             stops == {q \in (t + 1 + LooseMinMore)..(t + 1 + LooseMaxMore) :
                          /\ q <= Len(s) + 1
                          /\ AllIn(s, t + 1, q - 1, LooseTitleChar)
                          /\ IsLooseEnd(s, q)}
         IN  IF /\ d + 1 <= Len(s)
                /\ s[d] = "."
                /\ s[d + 1] \in Whitespace
                /\ t <= Len(s)
                /\ s[t] \in Upper
                /\ stops # {}
             THEN Match(SubSeq(s, p, d - 1),
                        strip(SubSeq(s, t, SetMax(stops) - 1)))
             ELSE NoMatch

TopicLoose(s) ==
    LET at == {p \in 1..Len(s) : TopicLooseAt(s, p).ok}
    IN  IF at = {} THEN NoMatch ELSE TopicLooseAt(s, SetMin(at))

\* str.lower() of one character
LowerOf(c) ==
    IF c \in Upper
    THEN CHOOSE l \in Lower :
            \E k \in 1..26 : /\ <<"A", "B", "C", "D", "E", "F", "G", "H", "I",
                                   "J", "K", "L", "M", "N", "O", "P", "Q", "R",
                                   "S", "T", "U", "V", "W", "X", "Y", "Z">>[k] = c
                             /\ <<"a", "b", "c", "d", "e", "f", "g", "h", "i",
                                   "j", "k", "l", "m", "n", "o", "p", "q", "r",
                                   "s", "t", "u", "v", "w", "x", "y", "z">>[k] = l
    ELSE c

lower(s) == [k \in 1..Len(s) |-> LowerOf(s[k])]

\* line 219: len(title) < 100 and not title.lower().startswith('the ')
LooseTitleLimit == 100
LooksLikeHeader(title) ==
    Len(title) < LooseTitleLimit
    /\ ~StartsWith(lower(title), <<"t", "h", "e", " ">>)

\* ---- topic_alignment.py, line 254: ^(\d+)\.\s+(.{5,100})
\* title is group 2, stripped and cut to 80 characters (line 257)
FallbackMin == 5
FallbackMax == 100
FallbackTitleCut == 80
FallbackLookahead == 20

TopicFallbackMatch(s) ==
    LET d == RunEnd(s, 1, Digit)
        \* \s+ gives whitespace back until five characters are left
        starts == {t \in (d + 2)..RunEnd(s, d + 1, Whitespace) :
                      /\ t + FallbackMin - 1 <= Len(s)
                      /\ \A k \in t..(t + FallbackMin - 1) : s[k] # "\n"}
    IN  IF d > 1 /\ d + 1 <= Len(s) /\ s[d] = "." /\ starts # {}
        THEN LET t == SetMax(starts)
                 q == SetMin({t + FallbackMax, Len(s) + 1})
                 title == strip(SubSeq(s, t, q - 1))
             IN  Match(SubSeq(s, 1, d - 1),
                       SubSeq(title, 1, SetMin({FallbackTitleCut, Len(title)})))
        ELSE NoMatch

\* re.match(r'^\d+\.', next_line)
StartsNumbered(s) ==
    LET d == RunEnd(s, 1, Digit)
    IN  d > 1 /\ d <= Len(s) /\ s[d] = "."

(***************************************************************************)
(* Arguments of _try_recover_partial_json: every short text over the       *)
(* structural characters of JSON, and every prefix of the serialisation of *)
(* an array whose elements are drawn from Elements.                        *)
(***************************************************************************)
MaxLen == 4
MaxElems == 2
MaxCalls == 2

JsonAlphabet == {"[", "]", "{", "}", ",", "\"", ":", "1", " "}

ShortTexts == UNION {[1..n -> JsonAlphabet] : n \in 0..MaxLen}

Objects ==
    { <<"{", "}">>,                                          \* {}
      <<"{", "\"", "a", "\"", ":", "1", "}">>,               \* {"a":1}
      <<"{", "\"", "a", "\"", ":", " ", "\"", "}", "\"", "}">>,  \* {"a": "}"}
      <<"{", "\"", "a", "\"", ":", "\"", "{", "\"", "}">>,   \* {"a":"{"}
      <<"{", "\"", "a", "\"", ":", "\"", "[", "\"", "}">>,   \* {"a":"["}
      <<"{", "\"", "a", "\"", ":", "[", "{", "}", "]", "}">>,  \* {"a":[{}]}
      <<"{", "\"", "a", "\"", ":", "{", "}", "}">> }         \* {"a":{}}

Elements == Objects \cup { <<"1">> }

Arrays == UNION {[1..n -> Elements] : n \in 0..MaxElems}

\* ",".join(arr)
RECURSIVE JoinComma(_)
JoinComma(arr) ==
    IF Len(arr) = 0 THEN <<>>
    ELSE IF Len(arr) = 1 THEN arr[1]
    ELSE arr[1] \o <<",">> \o JoinComma(SubSeq(arr, 2, Len(arr)))

\* the JSON text of an array of the given element texts
Serialize(arr) == <<"[">> \o JoinComma(arr) \o <<"]">>

Origins ==
    {[kind |-> "text", array |-> <<t>>, cut |-> Len(t)] : t \in ShortTexts}
    \cup UNION {{[kind |-> "array", array |-> arr, cut |-> n] :
                    n \in 1..Len(Serialize(arr))} : arr \in Arrays}

Argument(o) ==
    IF o.kind = "text" THEN o.array[1]
    ELSE SubSeq(Serialize(o.array), 1, o.cut)

ExtractIdle ==
    /\ variant = "none"
    /\ document = <<>>
    /\ lines = <<>>
    /\ idx = 0
    /\ current_section = <<>>
    /\ current_title = <<>>
    /\ current_content = <<>>
    /\ sections = <<>>
    /\ pc = "idle"
    /\ log = <<>>

InitRecover ==
    /\ origin \in Origins
    /\ partial_json = Argument(origin)
    /\ result = <<>>
    /\ rpc = "call"
    /\ calls = 0
    /\ ExtractIdle
    /\ ApiIdle
    /\ LateIdle

\* one call of _try_recover_partial_json(partial_json)
Recover ==
    /\ rpc = "call"
    /\ result' = try_recover_partial_json(partial_json)
    /\ rpc' = "returned"
    /\ calls' = calls + 1
    /\ UNCHANGED <<partial_json, origin>>
    /\ UNCHANGED extractVars
    /\ UNCHANGED apiVars
    /\ UNCHANGED lateVars

\* the value returned is handed to the function again
Reapply ==
    /\ rpc = "returned"
    /\ calls < MaxCalls
    /\ partial_json' = result
    /\ rpc' = "call"
    /\ UNCHANGED <<result, calls, origin>>
    /\ UNCHANGED extractVars
    /\ UNCHANGED apiVars
    /\ UNCHANGED lateVars

NextRecover == Recover \/ Reapply

SpecRecover == InitRecover /\ [][NextRecover]_vars

(***************************************************************************)
(* extract_sections: the state of the loop and what every line does to it  *)
(***************************************************************************)
None == <<>>

\* '\n'.join(ls)
RECURSIVE JoinLines(_)
JoinLines(ls) ==
    IF Len(ls) = 0 THEN <<>>
    ELSE IF Len(ls) = 1 THEN ls[1]
    ELSE ls[1] \o <<"\n">> \o JoinLines(SubSeq(ls, 2, Len(ls)))

\* d.split('\n')
RECURSIVE split(_)
split(d) ==
    LET nl == {i \in 1..Len(d) : d[i] = "\n"}
    IN  IF nl = {} THEN <<d>>
        ELSE <<SubSeq(d, 1, SetMin(nl) - 1)>> \o split(From(d, SetMin(nl) + 1))

\* sections[key] = (title, body): a new key goes last, a known key keeps its
\* place and gets the new value
DictSetMovesLast(d, key, title, body) ==
    Append(SelectSeq(d, LAMBDA e : e.key # key),
           [key |-> key, title |-> title, body |-> body])
DictSet(d, key, title, body) ==
    IF \E i \in 1..Len(d) : d[i].key = key
    THEN [i \in 1..Len(d) |->
             IF d[i].key = key
             THEN [key |-> key, title |-> title, body |-> body] ELSE d[i]]
    ELSE Append(d, [key |-> key, title |-> title, body |-> body])

\* '\n'.join(current_content).strip()
Body(content) == strip(JoinLines(content))

\* if current_section: sections[current_section] = (current_title, body)
SavedNothing(d) == d
Saved(d) ==
    IF current_section # None
    THEN DictSet(d, current_section, current_title, Body(current_content))
    ELSE d

Logged(kind, key, title) ==
    Append(log, [line |-> idx, kind |-> kind, key |-> key, title |-> title])

InLoop(v) == variant = v /\ pc = "loop" /\ idx <= Len(lines)
stripped == strip(lines[idx])

\* lines = document.split('\n') and the initialisation of the loop
SplitDocument ==
    /\ pc = "start"
    /\ lines' = split(document)
    /\ idx' = 1
    /\ pc' = "loop"
    /\ UNCHANGED <<variant, document, current_section, current_title,
                   current_content, sections, log>>
    /\ UNCHANGED recoverVars
    /\ UNCHANGED apiVars
    /\ UNCHANGED lateVars

\* a new section starts: the one before is saved
Open(key, title, content) ==
    /\ sections' = Saved(sections)
    /\ current_section' = key
    /\ current_title' = title
    /\ current_content' = content
    /\ idx' = idx + 1
    /\ log' = Logged("open", key, title)
    /\ UNCHANGED <<variant, document, lines, pc>>
    /\ UNCHANGED recoverVars
    /\ UNCHANGED apiVars
    /\ UNCHANGED lateVars

KeepNothing(text, kind) ==
    /\ idx' = idx + 1
    /\ log' = Logged(IF current_section # None THEN kind ELSE "drop",
                     current_section, <<>>)
    /\ UNCHANGED <<variant, document, lines, current_section, current_title,
                   current_content, sections, pc>>
    /\ UNCHANGED recoverVars
    /\ UNCHANGED apiVars
    /\ UNCHANGED lateVars

\* the line goes to the current section, or nowhere when there is none
Keep(text, kind) ==
    /\ current_content' = IF current_section # None
                          THEN Append(current_content, text)
                          ELSE current_content
    /\ idx' = idx + 1
    /\ log' = Logged(IF current_section # None THEN kind ELSE "drop",
                     current_section, <<>>)
    /\ UNCHANGED <<variant, document, lines, current_section, current_title,
                   sections, pc>>
    /\ UNCHANGED recoverVars
    /\ UNCHANGED apiVars
    /\ UNCHANGED lateVars

\* ---- alignment.py, lines 112 to 159
LegalBlank ==
    /\ InLoop("legal")
    /\ stripped = <<>>
    /\ idx' = idx + 1
    /\ log' = Logged("blank", current_section, <<>>)
    /\ UNCHANGED <<variant, document, lines, current_section, current_title,
                   current_content, sections, pc>>
    /\ UNCHANGED recoverVars
    /\ UNCHANGED apiVars
    /\ UNCHANGED lateVars

LegalOpenMain ==
    /\ InLoop("legal")
    /\ stripped # <<>>
    /\ main_section_match(stripped).ok
    /\ Open(main_section_match(stripped).num,
            main_section_match(stripped).title, <<>>)

\* the guard of line 133
SubsectionOpensAlways(m) == m.ok
SubsectionOpens(m) == m.ok /\ current_section # None

LegalOpenSub ==
    /\ InLoop("legal")
    /\ stripped # <<>>
    /\ ~main_section_match(stripped).ok
    /\ SubsectionOpens(subsection_match(stripped))
    /\ LET start == SubsectionStart(subsection_match(stripped).title)
       IN  Open(subsection_match(stripped).num, start.title, start.content)

LegalAppend ==
    /\ InLoop("legal")
    /\ stripped # <<>>
    /\ ~main_section_match(stripped).ok
    /\ ~SubsectionOpens(subsection_match(stripped))
    /\ Keep(stripped, "append")

\* ---- topic_alignment.py, lines 195 to 242
TopicBlank ==
    /\ InLoop("topic")
    /\ stripped = <<>>
    /\ Keep(<<>>, "blank")

\* patterns 1 and 2, in this order
TopicEarlyMatch(s) == IF TopicBold(s).ok THEN TopicBold(s) ELSE TopicBare(s)

TopicOpen ==
    /\ InLoop("topic")
    /\ stripped # <<>>
    /\ TopicEarlyMatch(stripped).ok
    /\ Open(TopicEarlyMatch(stripped).num, TopicEarlyMatch(stripped).title,
            <<>>)

\* pattern 3 and the test of line 219 passes: lines 220 to 227
TopicOpenLoose ==
    /\ InLoop("topic")
    /\ stripped # <<>>
    /\ ~TopicEarlyMatch(stripped).ok
    /\ TopicLoose(stripped).ok
    /\ LooksLikeHeader(TopicLoose(stripped).title)
    /\ Open(TopicLoose(stripped).num, TopicLoose(stripped).title, <<>>)

\* pattern 3 and the test of line 219 fails: match is still set, so the
\* "if match" of line 230 opens the section with the same groups
TopicOpenLooseUnchecked ==
    /\ InLoop("topic")
    /\ stripped # <<>>
    /\ ~TopicEarlyMatch(stripped).ok
    /\ TopicLoose(stripped).ok
    /\ ~LooksLikeHeader(TopicLoose(stripped).title)
    /\ Open(TopicLoose(stripped).num, TopicLoose(stripped).title, <<>>)

TopicAppend ==
    /\ InLoop("topic")
    /\ stripped # <<>>
    /\ ~TopicEarlyMatch(stripped).ok
    /\ ~TopicLoose(stripped).ok
    /\ Keep(stripped, "append")

\* ---- topic_alignment.py, lines 251 to 266: the numbered lines of a
\* document in which the loop found no section
RECURSIVE FallbackContent(_, _, _)
FallbackContent(ls, j, last) ==
    IF j > last THEN <<>>
    ELSE LET next_line == strip(ls[j])
         IN  IF next_line # <<>> /\ ~StartsNumbered(next_line)
             THEN <<next_line>> \o FallbackContent(ls, j + 1, last)
             ELSE IF StartsNumbered(next_line) THEN <<>>
             ELSE FallbackContent(ls, j + 1, last)

RECURSIVE FallbackFrom(_, _, _)
FallbackFrom(ls, i, d) ==
    IF i > Len(ls) THEN d
    ELSE LET m == TopicFallbackMatch(strip(ls[i]))
             last == SetMin({i + FallbackLookahead - 1, Len(ls)})
         IN  IF m.ok
             THEN FallbackFrom(ls, i + 1,
                      DictSet(d, m.num, m.title,
                              Body(FallbackContent(ls, i + 1, last))))
             ELSE FallbackFrom(ls, i + 1, d)

\* the end of the loop: "save the last section" (both variants), then the
\* test "if not sections" of topic_alignment.py
SaveLast ==
    /\ pc = "loop"
    /\ idx > Len(lines)
    /\ sections' = Saved(sections)
    /\ pc' = IF variant = "topic" /\ Saved(sections) = <<>>
             THEN "fallback" ELSE "done"
    /\ UNCHANGED <<variant, document, lines, idx, current_section,
                   current_title, current_content, log>>
    /\ UNCHANGED recoverVars
    /\ UNCHANGED apiVars
    /\ UNCHANGED lateVars

TopicFallback ==
    /\ pc = "fallback"
    /\ sections' = FallbackFrom(lines, 1, sections)
    /\ pc' = "done"
    /\ UNCHANGED <<variant, document, lines, idx, current_section,
                   current_title, current_content, log>>
    /\ UNCHANGED recoverVars
    /\ UNCHANGED apiVars
    /\ UNCHANGED lateVars

(***************************************************************************)
(* Documents: up to MaxLines lines, each one of LinePool                   *)
(***************************************************************************)
MaxLines == 3

Rep(c, n) == [k \in 1..n |-> c]

LinePool ==
    { <<"1", ".", " ", "A", "b", "c">>,                       \* 1. Abc
      <<"2", ".", " ", "A", "B", "C">>,                       \* 2. ABC
      <<"*", "*", "1", ".", " ", "A", "b", "c", "*", "*">>,   \* **1. Abc**
      <<"*", "*", "2", ".", " ", "A", "B", "*", "*">>,        \* **2. AB**
      <<"*", "*", "3", ".", " ", "A", "/", "B", "*", "*">>,   \* **3. A/B**
      <<"1", ".", "1", " ", "a", "b">>,                       \* 1.1 ab
      <<" ", "a", "b", ".">>,                                 \*  ab.
      <<>>,                                                   \* (blank)
      <<"a", " ", "1", ".", " ", "T", "h", "e", " ", "b">>,   \* a 1. The b
      <<"a", " ", "2", ".", " ", "A", "b", "c", "d">>,        \* a 2. Abcd
      <<"1", ".", " ", "a", "b", "c", "d", "e">>,             \* 1. abcde
      <<"2", ".", "1", " ", "\"", "A", "b", "\"", ":", " ", "c", "d">>,
                                                              \* 2.1 "Ab": cd
      <<"1", ".", "2", " ", ":", "a">> }                      \* 1.2 :a

Documents ==
    {JoinLines(ls) : ls \in UNION {[1..n -> LinePool] : n \in 1..MaxLines}}

\* documents with titles at the limits of the patterns
MaxLongLines == 2

LongLinePool ==
    { <<"1", ".", " ", "A", "b">>,                            \* 1. Ab
      <<"1", ".", " ", "A", "b", "c">>,                       \* 1. Abc
      <<"2", ".", " ", "A">>,                                 \* 2. A
      <<"2", ".", " ", "A", "B">>,                            \* 2. AB
      <<"2", ".", " ", "A", "-", "B", "/", "C", " ", "D">>,   \* 2. A-B/C D
      <<"1", ".", "1", " ", "a", "b">>,                       \* 1.1 ab
      <<" ", "a", "b", ".">>,                                 \*  ab.
      <<>>,                                                   \* (blank)
      <<"a", " ", "1", ".", " ", "T", "h", "e", " ", "b">>,   \* a 1. The b
      <<"a", " ", "2", ".", " ", "A", "b", "c", "d">>,        \* a 2. Abcd
      <<"3", ".", " ", "A">> \o Rep("b", 99),    \* a title of 100 characters
      <<"3", ".", " ", "A">> \o Rep("b", 100),   \* a title of 101 characters
      <<"3", ".", " ", "A">> \o Rep("b", 101) }  \* a title of 102 characters

LongDocuments ==
    {JoinLines(ls) :
        ls \in UNION {[1..n -> LongLinePool] : n \in 1..MaxLongLines}}

RecoverIdle ==
    /\ partial_json = <<>>
    /\ result = <<>>
    /\ rpc = "idle"
    /\ calls = 0
    /\ origin = [kind |-> "none", array |-> <<>>, cut |-> 0]

InitExtractFrom(docs) ==
    /\ variant \in {"legal", "topic"}
    /\ document \in docs
    /\ lines = <<>>
    /\ idx = 0
    /\ current_section = None
    /\ current_title = <<>>
    /\ current_content = <<>>
    /\ sections = <<>>
    /\ pc = "start"
    /\ log = <<>>
    /\ RecoverIdle
    /\ ApiIdle
    /\ LateIdle

NextExtract ==
    \/ SplitDocument
    \/ LegalBlank \/ LegalOpenMain \/ LegalOpenSub \/ LegalAppend
    \/ TopicBlank \/ TopicOpen \/ TopicOpenLoose \/ TopicOpenLooseUnchecked
    \/ TopicAppend
    \/ SaveLast
    \/ TopicFallback

InitExtract == InitExtractFrom(Documents)
SpecExtract == InitExtract /\ [][NextExtract]_vars

InitExtractLong == InitExtractFrom(LongDocuments)
SpecExtractLong == InitExtractLong /\ [][NextExtract]_vars

\* documents with subsection texts around the 50 characters of line 153
MaxSubLines == 2

SubLinePool ==
    { <<"1", ".", " ", "A", "B", "C">>,                       \* 1. ABC
      <<"1", ".", "1", " ", "\"", "A", "b", "\"", ":", " ", "c", "d">>,
                                                              \* 1.1 "Ab": cd
      <<"1", ".", "2", " ", "*", "*", "A", "b", "*", "*", ":", " ", "c">>,
                                                              \* 1.2 **Ab**: c
      <<"1", ".", "3", " ">> \o Rep("a", 50),    \* a plain text of 50
      <<"1", ".", "4", " ">> \o Rep("a", 51),    \* a plain text of 51
      <<"1", ".", "5", " ", ":">> \o Rep("a", 49),   \* ':' and 49 more
      <<"1", ".", "6", " ", ":">> \o Rep("a", 50),   \* ':' and 50 more
      <<" ", "a", "b", ".">>,                                 \*  ab.
      <<>>,                                                   \* (blank)
      <<"a", " ", "1", ".", " ", "T", "h", "e", " ", "b">>,   \* a 1. The b
      <<"a", " ", "2", ".", " ", "A", "b", "c", "d">> }       \* a 2. Abcd

SubDocuments ==
    {JoinLines(ls) :
        ls \in UNION {[1..n -> SubLinePool] : n \in 1..MaxSubLines}}

InitExtractSub == InitExtractFrom(SubDocuments)
SpecExtractSub == InitExtractSub /\ [][NextExtract]_vars

\* extract_sections called again on one heading line followed by the body
\* of a section it returned; the first log entry remembers the section
MaxFedLines == 3

HeadingLine == <<"2", ".", " ", "A", "B", "C">>                \* 2. ABC

FedLinePool ==
    { HeadingLine,
      <<"1", ".", "1", " ", "\"", "A", "b", "\"", ":", " ", "c", "d">>,
                                                              \* 1.1 "Ab": cd
      <<"1", ".", "2", " ", "\"", "A", "b", "\"", ":", " ",
        "3", ".", " ", "D", "E", "F">>,                 \* 1.2 "Ab": 3. DEF
      <<" ", "a", "b", ".">>,                                 \*  ab.
      <<>>,                                                   \* (blank)
      <<"a", " ", "1", ".", " ", "T", "h", "e", " ", "b">>,   \* a 1. The b
      <<"a", " ", "2", ".", " ", "A", "b", "c", "d">>,        \* a 2. Abcd
      <<"1", ".", " ", "a", "b", "c", "d", "e">> }            \* 1. abcde

FedDocuments ==
    {JoinLines(ls) :
        ls \in UNION {[1..n -> FedLinePool] : n \in 1..MaxFedLines}}

IsFedBack == log # <<>> /\ log[1].kind = "fed"

FeedBack ==
    /\ pc = "done"
    /\ ~IsFedBack
    /\ \E i \in 1..Len(sections) :
          /\ document' = HeadingLine \o <<"\n">> \o sections[i].body
          /\ log' = <<[line |-> 0, kind |-> "fed", key |-> sections[i].key,
                       title |-> sections[i].title]>>
    /\ lines' = <<>>
    /\ idx' = 0
    /\ current_section' = None
    /\ current_title' = <<>>
    /\ current_content' = <<>>
    /\ sections' = <<>>
    /\ pc' = "start"
    /\ UNCHANGED variant
    /\ UNCHANGED recoverVars
    /\ UNCHANGED apiVars
    /\ UNCHANGED lateVars

InitRoundTrip == InitExtractFrom(FedDocuments)
NextRoundTrip == NextExtract \/ FeedBack
SpecRoundTrip == InitRoundTrip /\ [][NextRoundTrip]_vars

(***************************************************************************)
(* POST /api/align (src/api.py): the request, the key, the documents       *)
(***************************************************************************)
\* a key that is None or empty: "not api_key" is true of it
Unset == ""

\* a or b, on keys
Or(a, b) == IF a # Unset THEN a ELSE b

\* The request.  kind is the content type: "multipart" (form fields and
\* files), "json", or "other".  key is the api_key field of the form or of
\* the JSON object, Unset when there is none.  doc1 and doc2 say what the
\* request holds for each document: "missing" (no file, no field), "nofield"
\* (a JSON object with neither content nor text), "ok" (text that can be
\* read), "unreadable" (extract_text_from_file raises).  method is the
\* method field, "absent" when there is none.
Kinds == {"multipart", "json", "other"}
RequestKeys == {Unset, "key-of-request"}
EnvKeys == {Unset, "key-of-env"}
MethodValues ==
    {"absent", "section", "section_based", "topic_template", "topic_direct",
     "other_method"}

DocStates(kind) ==
    IF kind = "multipart" THEN {"missing", "ok", "unreadable"}
    ELSE IF kind = "json" THEN {"missing", "nofield", "ok", "unreadable"}
    ELSE {"missing"}

Requests ==
    UNION {[kind : {k}, key : RequestKeys, doc1 : DocStates(k),
            doc2 : DocStates(k), method : MethodValues] : k \in Kinds}

is_json(r) == r.kind = "json"
form_api_key(r) == IF r.kind # "json" THEN r.key ELSE Unset
json_api_key(r) == IF r.kind = "json" THEN r.key ELSE Unset
has_files(r) == r.kind = "multipart" /\ (r.doc1 # "missing" \/ r.doc2 # "missing")

\* line 212: request.form.get('api_key') or request.json.get('api_key')
\* if request.is_json else None.  The conditional expression binds weaker
\* than "or": both fields are read only when the request is JSON.
RequestApiKey(r) ==
    IF is_json(r) THEN Or(form_api_key(r), json_api_key(r)) ELSE Unset

\* lines 213 and 214
ResolvedApiKey(r, env) == Or(RequestApiKey(r), env)

\* the body of an error response of align_documents
ErrorBody(msg) == [success |-> FALSE, error |-> msg]
Sent(status, body) == [status |-> status, body |-> body]

NotInvoked == [fn |-> "none", key |-> Unset]

\* align_documents has returned nothing yet
NoResponse == Sent(0, <<>>)

\* lines 211 to 220
GetKey ==
    /\ apc = "key"
    /\ api_key' = ResolvedApiKey(request, env_key)
    /\ IF ResolvedApiKey(request, env_key) = Unset
       THEN /\ response' = Sent(400, ErrorBody("OpenAI API key not provided"))
            /\ apc' = "sent"
       ELSE /\ response' = response
            /\ apc' = "docs"
    /\ UNCHANGED <<request, env_key, method, invoked, upstream, res>>
    /\ UNCHANGED <<recoverVars, extractVars>>
    /\ UNCHANGED lateVars

\* what lines 222 to 287 do with the request: a response, or the method
\* read from the form or from the JSON object
method_or_default(r) == IF r.method = "absent" THEN "section" ELSE r.method

ReadDocuments(r) ==
    IF has_files(r)
    THEN IF r.doc1 = "missing" \/ r.doc2 = "missing"
         THEN Sent(400, ErrorBody("Both doc1 and doc2 files are required"))
         ELSE IF r.doc1 = "unreadable" \/ r.doc2 = "unreadable"
         THEN Sent(500, ErrorBody("Unsupported file format"))
         ELSE NoResponse
    ELSE IF is_json(r)
    THEN IF r.doc1 = "missing" \/ r.doc2 = "missing"
         THEN Sent(400, ErrorBody("Both doc1 and doc2 are required"))
         ELSE IF r.doc1 = "nofield"
         THEN Sent(400, ErrorBody("doc1 must have content or text field"))
         ELSE IF r.doc1 = "unreadable"
         THEN Sent(500, ErrorBody("Unsupported file format"))
         ELSE IF r.doc2 = "nofield"
         THEN Sent(400, ErrorBody("doc2 must have content or text field"))
         ELSE IF r.doc2 = "unreadable"
         THEN Sent(500, ErrorBody("Unsupported file format"))
         ELSE NoResponse
    ELSE Sent(400, ErrorBody(
             "Request must be multipart/form-data or application/json"))

\* lines 222 to 287
ReadDocs ==
    /\ apc = "docs"
    /\ IF ReadDocuments(request).status = 0
       THEN /\ method' = method_or_default(request)
            /\ response' = response
            /\ apc' = "dispatch"
       ELSE /\ method' = method
            /\ response' = ReadDocuments(request)
            /\ apc' = "sent"
    /\ UNCHANGED <<request, env_key, api_key, invoked, upstream, res>>
    /\ UNCHANGED <<recoverVars, extractVars>>
    /\ UNCHANGED lateVars

\* GET /api/methods: the ids listed
MethodIds == {"section", "topic_template", "topic_direct"}

\* lines 290 to 300: the alignment function of a method, "none" for a
\* method that is refused
RouteWithoutAlias(m) ==
    IF m = "section" THEN "section_based_alignment"
    ELSE IF m = "topic_template" THEN "topic_template_alignment"
    ELSE IF m = "topic_direct" THEN "topic_direct_alignment"
    ELSE "none"
Route(m) ==
    IF m = "section" \/ m = "section_based" THEN "section_based_alignment"
    ELSE IF m = "topic_template" THEN "topic_template_alignment"
    ELSE IF m = "topic_direct" THEN "topic_direct_alignment"
    ELSE "none"

\* lines 289 to 300
Dispatch ==
    /\ apc = "dispatch"
    /\ IF Route(method) = "none"
       THEN /\ response' = Sent(400, ErrorBody("Invalid method"))
            /\ invoked' = invoked
            /\ apc' = "sent"
       ELSE /\ response' = response
            /\ invoked' = [fn |-> Route(method), key |-> api_key]
            /\ apc' = "align"
    /\ UNCHANGED <<request, env_key, api_key, method, upstream, res>>
    /\ UNCHANGED <<recoverVars, extractVars>>
    /\ UNCHANGED lateVars

(***************************************************************************)
(* The alignment functions of api.py and the LLM calls they make           *)
(***************************************************************************)
MaxRecords == 2
MaxTopics == 2

\* an LLM call either raises, or returns text that json.loads rejects, or
\* returns what was asked for
CallOutcomes == {"ok", "raises", "undecodable"}
Failed(o) == o \in {"raises", "undecodable"}

Call(name, outcome) == [call |-> name, outcome |-> outcome]

\* the value of 'alignments': a list of n records, or a dict of n keys
Array(n) == [type |-> "array", len |-> n]
Object(n) == [type |-> "object", len |-> n]

\* the dict of the except branches (lines 104-110, 129-135, 149-155)
Failure(m, msg) ==
    [method |-> m, success |-> FALSE, error |-> msg, alignments_found |-> 0,
     alignments |-> Array(0)]

\* section_based_alignment, lines 50 to 110.  The reply of the one LLM call
\* is a JSON array of n records, a JSON object of n keys (len(alignments)
\* is n), a JSON number (len raises), text that is not JSON, or the call
\* raises.
SectionReplies ==
    {[kind |-> k, len |-> n] : k \in {"array", "object"}, n \in 0..MaxRecords}
        \cup {[kind |-> k, len |-> 0] : k \in {"number", "undecodable", "raises"}}

SectionResult(reply) ==
    IF reply.kind = "array"
    THEN [method |-> "section_based", success |-> TRUE,
          alignments_found |-> reply.len, alignments |-> Array(reply.len)]
    ELSE IF reply.kind = "object"
    THEN [method |-> "section_based", success |-> TRUE,
          alignments_found |-> reply.len, alignments |-> Object(reply.len)]
    ELSE Failure("section_based", reply.kind)

section_based_alignment ==
    /\ apc = "align"
    /\ invoked.fn = "section_based_alignment"
    /\ \E reply \in SectionReplies :
          /\ res' = SectionResult(reply)
          /\ upstream' = <<Call("section",
                               IF reply.kind \in {"raises", "undecodable"}
                               THEN reply.kind ELSE "ok")>>
    /\ apc' = "respond"
    /\ UNCHANGED <<request, env_key, api_key, method, invoked, response>>
    /\ UNCHANGED <<recoverVars, extractVars>>
    /\ UNCHANGED lateVars

\* the names of the topics an LLM call returned; none when the call failed
TopicNames == 1..MaxTopics
TopicsOf(outcome, names) == IF Failed(outcome) THEN {} ELSE names

\* topic_services.run_topic_template_alignment, lines 36 to 118, and
\* topic_template_alignment, lines 118 to 135.  Every method of
\* TopicBasedAligner catches its own exceptions: identify_document_type
\* returns "Unknown Legal Document", research_standard_topics and
\* identify_topics_in_document return no topics, _compare_topic_content
\* returns a text.
TemplateResult(standard, doc1_topics, doc2_topics) ==
    IF standard = {}
    THEN Failure("topic_template", "Failed to load standard topics")
    ELSE IF doc1_topics = {} /\ doc2_topics = {}
    THEN Failure("topic_template", "Topic extraction returned no data")
    ELSE [method |-> "topic_template", success |-> TRUE,
          alignments_found |-> Cardinality(doc1_topics \cup doc2_topics),
          alignments |-> Array(Cardinality(doc1_topics \cup doc2_topics))]

TemplateCalls(t, s, standard, a, b, c, doc1_topics, doc2_topics) ==
    <<Call("identify_document_type", t), Call("research_standard_topics", s)>>
        \o (IF standard = {} THEN <<>>
            ELSE <<Call("identify_topics_in_document", a),
                   Call("identify_topics_in_document", b)>>)
        \o (IF standard # {} /\ doc1_topics \cap doc2_topics # {}
            THEN <<Call("_compare_topic_content", c)>> ELSE <<>>)

topic_template_alignment ==
    /\ apc = "align"
    /\ invoked.fn = "topic_template_alignment"
    /\ \E t, s, a, b \in CallOutcomes, c \in {"ok", "raises"},
          ns, n1, n2 \in SUBSET TopicNames :
          LET standard == TopicsOf(s, ns)
              doc1_topics == TopicsOf(a, n1)
              doc2_topics == TopicsOf(b, n2)
          IN  /\ Failed(s) => ns = {}
              /\ Failed(a) => n1 = {}
              /\ Failed(b) => n2 = {}
              /\ res' = TemplateResult(standard, doc1_topics, doc2_topics)
              /\ upstream' = TemplateCalls(t, s, standard, a, b, c,
                                           doc1_topics, doc2_topics)
    /\ apc' = "respond"
    /\ UNCHANGED <<request, env_key, api_key, method, invoked, response>>
    /\ UNCHANGED <<recoverVars, extractVars>>
    /\ UNCHANGED lateVars

\* topic_services.run_topic_direct_alignment, lines 121 to 201, and
\* topic_direct_alignment, lines 138 to 155.  extract_topics_from_document
\* and align_topics (nda_direct_alignment.py) catch their own exceptions and
\* return the empty list; compare_topic_content returns a text.
DirectResult(doc1_topics, doc2_topics, topic_alignments) ==
    IF doc1_topics = 0 /\ doc2_topics = 0
    THEN Failure("topic_direct", "Failed to extract topics")
    ELSE [method |-> "topic_direct", success |-> TRUE,
          alignments_found |-> topic_alignments,
          alignments |-> Array(topic_alignments)]

DirectCalls(e1, e2, g, doc1_topics, doc2_topics) ==
    <<Call("extract_topics_from_document", e1),
      Call("extract_topics_from_document", e2)>>
        \o (IF doc1_topics = 0 /\ doc2_topics = 0 THEN <<>>
            ELSE <<Call("align_topics", g)>>)

topic_direct_alignment ==
    /\ apc = "align"
    /\ invoked.fn = "topic_direct_alignment"
    /\ \E e1, e2, g \in CallOutcomes, n1, n2 \in 0..MaxTopics,
          k \in 0..MaxRecords :
          /\ Failed(e1) => n1 = 0
          /\ Failed(e2) => n2 = 0
          /\ Failed(g) => k = 0
          /\ res' = DirectResult(n1, n2, k)
          /\ upstream' = DirectCalls(e1, e2, g, n1, n2)
    /\ apc' = "respond"
    /\ UNCHANGED <<request, env_key, api_key, method, invoked, response>>
    /\ UNCHANGED <<recoverVars, extractVars>>
    /\ UNCHANGED lateVars

\* lines 302 to 306: the document names are added and the dict is sent;
\* no status is given, so the status is 200
WithNames(d) ==
    [f \in DOMAIN d \cup {"doc1_name", "doc2_name"} |->
        IF f \in DOMAIN d THEN d[f] ELSE "filename"]

Respond ==
    /\ apc = "respond"
    /\ response' = Sent(200, WithNames(res))
    /\ apc' = "sent"
    /\ UNCHANGED <<request, env_key, api_key, method, invoked, upstream, res>>
    /\ UNCHANGED <<recoverVars, extractVars>>
    /\ UNCHANGED lateVars

InitApi ==
    /\ request \in Requests
    /\ env_key \in EnvKeys
    /\ api_key = Unset
    /\ method = "absent"
    /\ invoked = NotInvoked
    /\ upstream = <<>>
    /\ res = <<>>
    /\ response = NoResponse
    /\ apc = "key"
    /\ RecoverIdle
    /\ ExtractIdle
    /\ LateIdle

NextApi ==
    \/ GetKey
    \/ ReadDocs
    \/ Dispatch
    \/ section_based_alignment
    \/ topic_template_alignment
    \/ topic_direct_alignment
    \/ Respond

SpecApi == InitApi /\ [][NextApi]_vars

(***************************************************************************)
(* The routines that decode the reply of an LLM call: align_sections and   *)
(* compare_section_content (alignment.py), section_based_alignment         *)
(* (api.py) and identify_topics_in_document (topic_alignment.py).          *)
(* Positions are Python's in this part (0-based, -1 for "not found"),      *)
(* since the code computes its slices from them.                           *)
(***************************************************************************)
\* s.find(sub, start)
find(s, sub, start) ==
    LET hit == {i \in start..(Len(s) - Len(sub)) :
                    SubSeq(s, i + 1, i + Len(sub)) = sub}
    IN  IF hit = {} THEN 0 - 1 ELSE SetMin(hit)

\* s.rfind(sub)
rfind(s, sub) ==
    LET hit == {i \in 0..(Len(s) - Len(sub)) :
                    SubSeq(s, i + 1, i + Len(sub)) = sub}
    IN  IF hit = {} THEN 0 - 1 ELSE SetMax(hit)

\* the position a slice bound stands for: a negative bound counts from the
\* end, and every bound is brought into 0..len
SliceBound(i, len) ==
    IF i < 0 THEN (IF i + len < 0 THEN 0 ELSE i + len)
    ELSE IF i > len THEN len ELSE i

\* s[start:stop]
Slice(s, start, stop) ==
    LET first == SliceBound(start, Len(s))
        last == SliceBound(stop, Len(s))
    IN  IF first >= last THEN <<>> ELSE SubSeq(s, first + 1, last)

\* s.endswith(p)
EndsWith(s, p) ==
    Len(s) >= Len(p) /\ SubSeq(s, Len(s) - Len(p) + 1, Len(s)) = p

\* the backquote character, which a TLA+ string cannot hold
Backquote == "backquote"
Fence == <<Backquote, Backquote, Backquote>>
JsonFence == Fence \o <<"j", "s", "o", "n">>

\* what a cleaning step leaves: the text, and the texts returned by the calls
\* of _try_recover_partial_json it made
Cleaned(text, recovered) == [json_str |-> text, recovery |-> recovered]

\* the branch taken when the json fence occurs in the reply, in align_sections
JsonFenceStripped(s) ==
    LET json_start == find(s, JsonFence, 0) + 7
        json_end == find(s, Fence, json_start)
    IN  IF json_end = 0 - 1 THEN strip(Slice(s, json_start, Len(s)))
        ELSE strip(Slice(s, json_start, json_end))

\* the same branch in the three other routines: json_end is not tested
JsonFenceStrippedUntested(s) ==
    LET json_start == find(s, JsonFence, 0) + 7
        json_end == find(s, Fence, json_start)
    IN  strip(Slice(s, json_start, json_end))

\* json_str[3:-3].strip()
PlainFenceStripped(s) == strip(Slice(s, 3, 0 - 3))

\* from the first opening to the last closing character, when both occur
Scanned(s, opening, closing) ==
    LET open_idx == find(s, <<opening>>, 0)
        close_idx == rfind(s, <<closing>>)
    IN  IF open_idx # 0 - 1 /\ close_idx # 0 - 1
        THEN Slice(s, open_idx, close_idx + 1) ELSE s

align_sections_clean(s) ==
    IF find(s, JsonFence, 0) # 0 - 1 THEN Cleaned(JsonFenceStripped(s), <<>>)
    ELSE IF StartsWith(s, Fence) /\ EndsWith(s, Fence)
    THEN Cleaned(PlainFenceStripped(s), <<>>)
    ELSE IF ~StartsWith(s, <<"[">>) THEN
        LET open_idx == find(s, <<"[">>, 0)
            close_idx == rfind(s, <<"]">>)
        IN  IF open_idx # 0 - 1 /\ close_idx # 0 - 1
            THEN Cleaned(Slice(s, open_idx, close_idx + 1), <<>>)
            ELSE IF open_idx # 0 - 1
            THEN LET partial == Slice(s, open_idx, Len(s))
                     recovered == try_recover_partial_json(partial)
                 IN  Cleaned(recovered, <<recovered>>)
            ELSE Cleaned(s, <<>>)
    ELSE Cleaned(s, <<>>)

section_based_alignment_clean(s) ==
    IF find(s, JsonFence, 0) # 0 - 1
    THEN Cleaned(JsonFenceStrippedUntested(s), <<>>)
    ELSE IF StartsWith(s, Fence) THEN Cleaned(PlainFenceStripped(s), <<>>)
    ELSE Cleaned(s, <<>>)

identify_topics_in_document_clean(s) ==
    IF find(s, JsonFence, 0) # 0 - 1
    THEN Cleaned(JsonFenceStrippedUntested(s), <<>>)
    ELSE IF StartsWith(s, Fence) /\ EndsWith(s, Fence)
    THEN Cleaned(PlainFenceStripped(s), <<>>)
    ELSE IF ~StartsWith(s, <<"[">>) THEN Cleaned(Scanned(s, "[", "]"), <<>>)
    ELSE Cleaned(s, <<>>)

compare_section_content_clean(s) ==
    IF find(s, JsonFence, 0) # 0 - 1
    THEN Cleaned(JsonFenceStrippedUntested(s), <<>>)
    ELSE IF StartsWith(s, Fence) /\ EndsWith(s, Fence)
    THEN Cleaned(PlainFenceStripped(s), <<>>)
    ELSE IF ~StartsWith(s, <<"{">>) THEN Cleaned(Scanned(s, "{", "}"), <<>>)
    ELSE Cleaned(s, <<>>)

ArrayRoutines == {"align_sections", "section_based_alignment",
                  "identify_topics_in_document"}
Routines == ArrayRoutines \cup {"compare_section_content"}

CleanOf(r, s) ==
    IF r = "align_sections" THEN align_sections_clean(s)
    ELSE IF r = "section_based_alignment" THEN section_based_alignment_clean(s)
    ELSE IF r = "identify_topics_in_document"
    THEN identify_topics_in_document_clean(s)
    ELSE compare_section_content_clean(s)

\* ---- the replies: a JSON text, whole or cut off where the token limit of
\* the call ended it, as the LLM wraps it
MaxDecodeElems == 2
DecodeElement == <<"{", "\"", "a", "\"", ":", "1", "}">>      \* {"a":1}
DecodeArrays == UNION {[1..n -> {DecodeElement}] : n \in 0..MaxDecodeElems}
DecodeObject ==                                              \* {"a":[1]}
    <<"{", "\"", "a", "\"", ":", "[", "1", "]", "}">>
Wrappers == {"bare", "json fence", "json fence open", "fence", "fence open",
             "prose"}
Prose == <<"o", "k", ":", " ">>

Replies(r) ==
    LET whole == IF r \in ArrayRoutines
                 THEN {Serialize(arr) : arr \in DecodeArrays}
                 ELSE {DecodeObject}
    IN  UNION {{[whole |-> w, cut |-> n, wrapper |-> f] :
                    n \in 1..Len(w), f \in Wrappers} : w \in whole}

Payload(reply) == SubSeq(reply.whole, 1, reply.cut)

\* response.choices[0].message.content
Content(reply) ==
    LET p == Payload(reply)
        f == reply.wrapper
    IN  IF f = "bare" THEN p
        ELSE IF f = "json fence" THEN JsonFence \o <<"\n">> \o p \o <<"\n">> \o Fence
        ELSE IF f = "json fence open" THEN JsonFence \o <<"\n">> \o p
        ELSE IF f = "fence" THEN Fence \o <<"\n">> \o p \o <<"\n">> \o Fence
        ELSE IF f = "fence open" THEN Fence \o <<"\n">> \o p
        ELSE Prose \o p

InitDecode ==
    /\ routine \in Routines
    /\ llm_reply \in Replies(routine)
    /\ json_str = strip(Content(llm_reply))
    /\ recovery = <<>>
    /\ decoded = "no"
    /\ dpc = "clean"
    /\ RecoverIdle
    /\ ExtractIdle
    /\ ApiIdle
    /\ ChunkIdle
    /\ BatchIdle
    /\ TopicIdle
    /\ NdaIdle
    /\ WebIdle

\* the if/elif chain between the reply and json.loads
CleanReply ==
    /\ dpc = "clean"
    /\ json_str' = CleanOf(routine, json_str).json_str
    /\ recovery' = CleanOf(routine, json_str).recovery
    /\ dpc' = "decode"
    /\ UNCHANGED <<routine, llm_reply, decoded>>
    /\ UNCHANGED notDecode

\* json.loads(json_str) and what the routine does when it raises; decoded
\* names the text that was decoded, or is "failed" when the routine gave up
DecodeReply ==
    /\ dpc = "decode"
    /\ IF json_loads_ok(json_str)
       THEN decoded' = "json_str" /\ UNCHANGED recovery
       ELSE IF routine = "align_sections"
       THEN LET recovered_json == try_recover_partial_json(json_str)
            IN  /\ recovery' = Append(recovery, recovered_json)
                /\ decoded' = IF recovered_json # <<>>
                              THEN "recovered_json" ELSE "failed"
       ELSE decoded' = "failed" /\ UNCHANGED recovery
    /\ dpc' = "done"
    /\ UNCHANGED <<routine, llm_reply, json_str>>
    /\ UNCHANGED notDecode

NextDecode == CleanReply \/ DecodeReply

SpecDecode == InitDecode /\ [][NextDecode]_vars

(***************************************************************************)
(* ChunkedDocumentAligner.chunk_document.  Positions are Python's          *)
(* (0-based), and start_idx may become negative.                           *)
(***************************************************************************)
\* document.split(): the maximal runs of characters that are not whitespace
RECURSIVE SplitWords(_)
SplitWords(s) ==
    LET keep == {i \in 1..Len(s) : s[i] \notin Whitespace}
    IN  IF keep = {} THEN <<>>
        ELSE LET b == SetMin(keep)
                 e == SetMin({j \in b..Len(s) :
                                 j = Len(s) \/ s[j + 1] \in Whitespace})
             IN  <<SubSeq(s, b, e)>> \o SplitWords(SubSeq(s, e + 1, Len(s)))

\* sep.join(ws)
RECURSIVE Join(_, _)
Join(sep, ws) ==
    IF Len(ws) = 0 THEN <<>>
    ELSE IF Len(ws) = 1 THEN ws[1]
    ELSE ws[1] \o sep \o Join(sep, SubSeq(ws, 2, Len(ws)))

\* min(start_idx + self.chunk_size, len(words)), one word too many
EndIdxOneMore(start, size, len) ==
    IF start + size + 1 < len THEN start + size + 1 ELSE len

\* min(start_idx + self.chunk_size, len(words))
EndIdx(start, size, len) ==
    IF start + size < len THEN start + size ELSE len

\* ---- the documents and the configurations
MaxWords == 4
MaxChunkSize == 3
MaxOverlap == 2
\* the list grows without limit in a run that does not return; the model
\* stops after this many chunks, more than any returning run makes
MaxChunks == MaxWords + 2
WordPool == <<<<"a">>, <<"b", "c">>, <<"d">>, <<"e">>, <<"f", "g">>,
              <<"h">>, <<"i">>, <<"j">>>>
Separators == {<<" ">>, <<"\n", "\n">>}
ChunkDocuments ==
    {Join(sep, SubSeq(WordPool, 1, n)) :
        sep \in Separators, n \in 0..MaxWords}

InitChunk ==
    /\ chunk_size \in 1..MaxChunkSize
    /\ overlap_size \in 0..MaxOverlap
    /\ document_text \in ChunkDocuments
    /\ words = SplitWords(document_text)
    /\ chunks = <<>>
    /\ chunk_id = 0
    /\ start_idx = 0
    /\ cpc = "loop"
    /\ RecoverIdle
    /\ ExtractIdle
    /\ ApiIdle
    /\ DecodeIdle
    /\ BatchIdle
    /\ TopicIdle
    /\ NdaIdle
    /\ WebIdle

\* one pass of the while loop
ChunkStep ==
    /\ cpc = "loop"
    /\ start_idx < Len(words)
    /\ Len(chunks) < MaxChunks
    /\ LET end_idx == EndIdx(start_idx, chunk_size, Len(words))
           chunk_words == Slice(words, start_idx, end_idx)
           chunk_content == Join(<<" ">>, chunk_words)
           moved == end_idx - overlap_size
       IN  /\ chunks' = Append(chunks, [chunk_id |-> chunk_id,
                                        chunk_content |-> chunk_content])
           /\ start_idx' = IF moved >= end_idx THEN end_idx ELSE moved
    /\ chunk_id' = chunk_id + 1
    /\ UNCHANGED <<chunk_size, overlap_size, document_text, words, cpc>>
    /\ UNCHANGED notChunk

\* the while test fails: return chunks
ChunkReturn ==
    /\ cpc = "loop"
    /\ ~(start_idx < Len(words))
    /\ cpc' = "returned"
    /\ UNCHANGED <<chunk_size, overlap_size, document_text, words, chunks,
                   chunk_id, start_idx>>
    /\ UNCHANGED notChunk

NextChunk == ChunkStep \/ ChunkReturn

SpecChunk == InitChunk /\ [][NextChunk]_vars

\* the loop is not suspended for ever: a pass that can be made is made
SpecChunkFair == SpecChunk /\ WF_vars(NextChunk)

(***************************************************************************)
(* LegalDocumentAligner.run_full_alignment and run_batch_evaluation.  What *)
(* the LLM calls of one document pair produce is the pair's upstream.      *)
(***************************************************************************)
MaxPairs == 3
MaxMappings == 2

\* the section numbers extract_sections finds in both documents, and the
\* section numbers a mapping of the LLM may name
SectionKeys == {"1"}
NamedSections == {"1", "9"}
Mappings ==
    UNION {[1..n -> [doc_section : NamedSections,
                     template_section : NamedSections]] :
              n \in 0..MaxMappings}

\* original and variant: the document was generated, or "" came back;
\* mappings: what align_sections returns; evaluation: whether the reply of
\* the evaluation call decodes to the three scores
Upstreams ==
    [original : {"generated", "failed"}, variant : {"generated", "failed"},
     mappings : Mappings, evaluation : {"scores", "unusable"}]

NotRun == [kind |-> "not run", pair_id |-> 0, alignments_found |-> 0]
NoResult == [kind |-> "None", pair_id |-> 0, alignments_found |-> 0]
KeyError == [kind |-> "KeyError", pair_id |-> 0, alignments_found |-> 0]
AlignmentResult(pair_id, section_mappings) ==
    [kind |-> "AlignmentResult", pair_id |-> pair_id,
     alignments_found |-> Len(section_mappings)]

\* run_full_alignment(pair_id, verbose=False): the value returned, or the
\* exception that leaves it
run_full_alignment(pair_id, up) ==
    IF up.original = "failed" THEN NoResult
    ELSE IF up.variant = "failed" THEN NoResult
    ELSE IF \E k \in 1..Len(up.mappings) :
               \/ up.mappings[k].doc_section \notin SectionKeys
               \/ up.mappings[k].template_section \notin SectionKeys
    THEN KeyError
    ELSE AlignmentResult(pair_id, up.mappings)

\* evaluate_alignment_quality: the scores of the reply, or the default score
evaluate_alignment_quality(r, up) ==
    [pair_id |-> r.pair_id,
     comments |-> IF up.evaluation = "scores" THEN "reply"
                  ELSE "Evaluation failed"]

\* statistics.stdev raises StatisticsError for fewer than two data points
StdevRaises(n) == n < 2

InitBatch ==
    /\ num_pairs \in 0..MaxPairs
    /\ pair_no = 0
    /\ results = <<>>
    /\ evaluation_scores = <<>>
    /\ alignment = NotRun
    /\ outcomes = <<>>
    /\ bpc = "loop"
    /\ RecoverIdle
    /\ ExtractIdle
    /\ ApiIdle
    /\ DecodeIdle
    /\ ChunkIdle
    /\ TopicIdle
    /\ NdaIdle
    /\ WebIdle

\* one pass of the for loop
ProcessPair ==
    /\ bpc = "loop"
    /\ pair_no < num_pairs
    /\ \E up \in Upstreams :
          LET r == run_full_alignment(pair_no + 1, up)
          IN  /\ alignment' = r
              /\ IF r.kind = "KeyError"
                 THEN /\ outcomes' = Append(outcomes, "error")
                      /\ UNCHANGED <<results, evaluation_scores>>
                 ELSE IF r.kind = "None"
                 THEN /\ outcomes' = Append(outcomes, "failed")
                      /\ UNCHANGED <<results, evaluation_scores>>
                 ELSE /\ outcomes' = Append(outcomes, "aligned")
                      /\ results' = Append(results, r)
                      /\ evaluation_scores' =
                             Append(evaluation_scores,
                                    evaluate_alignment_quality(r, up))
    /\ pair_no' = pair_no + 1
    /\ UNCHANGED <<num_pairs, bpc>>
    /\ UNCHANGED notBatch

\* the loop is over
EndOfPairs ==
    /\ bpc = "loop"
    /\ pair_no >= num_pairs
    /\ bpc' = IF evaluation_scores # <<>> THEN "report" ELSE "returned"
    /\ UNCHANGED <<num_pairs, pair_no, results, evaluation_scores, alignment,
                   outcomes>>
    /\ UNCHANGED notBatch

\* _generate_evaluation_report(results, evaluation_scores), then return
Report ==
    /\ bpc = "report"
    /\ bpc' = IF StdevRaises(Len(evaluation_scores))
              THEN "raised" ELSE "returned"
    /\ UNCHANGED <<num_pairs, pair_no, results, evaluation_scores, alignment,
                   outcomes>>
    /\ UNCHANGED notBatch

NextBatch == ProcessPair \/ EndOfPairs \/ Report

SpecBatch == InitBatch /\ [][NextBatch]_vars

(***************************************************************************)
(* TopicBasedAligner.align_topics.  A topics list is a sequence of         *)
(* (topic_name, section_numbers) pairs; a for loop over a set takes the    *)
(* names in an order the code does not fix.                                *)
(***************************************************************************)
MaxTopicEntries == 2
NamePool == {"A", "B", "C"}
SectionLists == {<<>>, <<"1">>}
TopicLists ==
    UNION {[1..n -> [topic_name : NamePool, sections : SectionLists]] :
              n \in 0..MaxTopicEntries}

\* the keys of {topic_name: sections for topic_name, sections in topics}
DictKeys(topics) == {topics[k].topic_name : k \in 1..Len(topics)}

\* the value of that dict for a key: the last pair with the name wins
DictGet(topics, name) ==
    topics[SetMax({k \in 1..Len(topics) : topics[k].topic_name = name})]
        .sections

common_topics == DictKeys(original_topics) \cap DictKeys(variant_topics)
only_original == DictKeys(original_topics) \ DictKeys(variant_topics)
only_variant == DictKeys(variant_topics) \ DictKeys(original_topics)

\* the if/elif/else that sets confidence, with an 'or' read as 'and'
ConfidenceBothEmpty(original_secs, variant_secs) ==
    IF Len(original_secs) > 0 /\ Len(variant_secs) > 0 THEN "high"
    ELSE IF Len(original_secs) = 0 /\ Len(variant_secs) = 0 THEN "low"
    ELSE "medium"

\* the if/elif/else that sets confidence
Confidence(original_secs, variant_secs) ==
    IF Len(original_secs) > 0 /\ Len(variant_secs) > 0 THEN "high"
    ELSE IF Len(original_secs) = 0 \/ Len(variant_secs) = 0 THEN "low"
    ELSE "medium"

TopicAlignment(name, original_secs, variant_secs, confidence, differences) ==
    [topic_name |-> name, original_sections |-> original_secs,
     variant_sections |-> variant_secs, alignment_confidence |-> confidence,
     content_differences |-> differences]

InitTopics ==
    /\ original_topics \in TopicLists
    /\ variant_topics \in TopicLists
    /\ alignments = <<>>
    /\ remaining = common_topics
    /\ tpc = "common"
    /\ RecoverIdle
    /\ ExtractIdle
    /\ ApiIdle
    /\ DecodeIdle
    /\ ChunkIdle
    /\ BatchIdle
    /\ NdaIdle
    /\ WebIdle

\* one pass of "for topic_name in common_topics"
AlignCommon ==
    /\ tpc = "common"
    /\ \E topic_name \in remaining :
          LET original_secs == DictGet(original_topics, topic_name)
              variant_secs == DictGet(variant_topics, topic_name)
          IN  /\ alignments' =
                     Append(alignments,
                            TopicAlignment(topic_name, original_secs,
                                           variant_secs,
                                           Confidence(original_secs,
                                                      variant_secs),
                                           "compared"))
              /\ remaining' = remaining \ {topic_name}
    /\ UNCHANGED <<original_topics, variant_topics, tpc>>
    /\ UNCHANGED notTopic

\* one pass of "for topic_name in only_original"
AlignOnlyOriginal ==
    /\ tpc = "only_original"
    /\ \E topic_name \in remaining :
          /\ alignments' =
                 Append(alignments,
                        TopicAlignment(topic_name,
                                       DictGet(original_topics, topic_name),
                                       <<>>, "low", "only in original"))
          /\ remaining' = remaining \ {topic_name}
    /\ UNCHANGED <<original_topics, variant_topics, tpc>>
    /\ UNCHANGED notTopic

\* one pass of "for topic_name in only_variant"
AlignOnlyVariant ==
    /\ tpc = "only_variant"
    /\ \E topic_name \in remaining :
          /\ alignments' =
                 Append(alignments,
                        TopicAlignment(topic_name, <<>>,
                                       DictGet(variant_topics, topic_name),
                                       "low", "only in variant"))
          /\ remaining' = remaining \ {topic_name}
    /\ UNCHANGED <<original_topics, variant_topics, tpc>>
    /\ UNCHANGED notTopic

\* a for loop is over: the next one starts, or the function returns
NextLoop ==
    /\ tpc \in {"common", "only_original", "only_variant"}
    /\ remaining = {}
    /\ tpc' = IF tpc = "common" THEN "only_original"
              ELSE IF tpc = "only_original" THEN "only_variant"
              ELSE "returned"
    /\ remaining' = IF tpc = "common" THEN only_original
                    ELSE IF tpc = "only_original" THEN only_variant
                    ELSE {}
    /\ UNCHANGED <<original_topics, variant_topics, alignments>>
    /\ UNCHANGED notTopic

NextTopics == AlignCommon \/ AlignOnlyOriginal \/ AlignOnlyVariant \/ NextLoop

SpecTopics == InitTopics /\ [][NextTopics]_vars

(***************************************************************************)
(* nda_direct_alignment.align_topics, from the decoded reply on.  A topic  *)
(* is its topic_name; an index of a record is an integer, null, or         *)
(* missing from the record.                                                *)
(***************************************************************************)
MaxNdaTopics == 1
MaxNdaRecords == 2

IntIndex(v) == [kind |-> "int", value |-> v]
NullIndex == [kind |-> "null", value |-> 0]
MissingIndex == [kind |-> "missing", value |-> 0]

Doc1Names == <<"P1", "P2", "P3">>
Doc2Names == <<"Q1", "Q2", "Q3">>
Doc1Indices ==
    {MissingIndex, NullIndex}
        \cup {IntIndex(v) : v \in (0 - 2)..MaxNdaTopics}
Doc2Indices == {MissingIndex, IntIndex(0), IntIndex(MaxNdaTopics)}
AlignmentRecords ==
    UNION {[1..n -> [doc1_topic_index : Doc1Indices,
                     doc2_topic_index : Doc2Indices]] :
              n \in 0..MaxNdaRecords}

\* alignment_data.get(key, -1)
GetIndex(index) == IF index.kind = "missing" THEN IntIndex(0 - 1) ELSE index

NoTopic == "None"
NotPresent == "[Not Present]"

\* topics[idx] if idx < len(topics) else None: the test idx >= 0 left out,
\* so that a negative index counts from the end of the list
LookupFromEnd(topics, index) ==
    IF index.kind # "int" THEN "TypeError"
    ELSE IF index.value < Len(topics)
    THEN (IF index.value >= 0 THEN topics[index.value + 1]
          ELSE IF index.value + Len(topics) >= 0
          THEN topics[index.value + Len(topics) + 1]
          ELSE "IndexError")
    ELSE NoTopic

\* topics[idx] if idx >= 0 and idx < len(topics) else None; comparing None
\* with 0 raises TypeError
Lookup(topics, index) ==
    IF index.kind # "int" THEN "TypeError"
    ELSE IF index.value >= 0 /\ index.value < Len(topics)
    THEN topics[index.value + 1]
    ELSE NoTopic

Exceptions == {"TypeError", "IndexError"}

InitNda ==
    /\ doc1_topic_list \in {SubSeq(Doc1Names, 1, n) : n \in 0..MaxNdaTopics}
    /\ doc2_topic_list \in {SubSeq(Doc2Names, 1, n) : n \in 0..MaxNdaTopics}
    /\ alignments_data \in AlignmentRecords
    /\ record_no = 0
    /\ nda_alignments = <<>>
    /\ caught = "none"
    /\ npc = "loop"
    /\ RecoverIdle
    /\ ExtractIdle
    /\ ApiIdle
    /\ DecodeIdle
    /\ ChunkIdle
    /\ BatchIdle
    /\ TopicIdle
    /\ WebIdle

\* one pass of "for alignment_data in alignments_data"
AlignRecord ==
    /\ npc = "loop"
    /\ record_no < Len(alignments_data)
    /\ LET alignment_data == alignments_data[record_no + 1]
           doc1_idx == GetIndex(alignment_data.doc1_topic_index)
           doc2_idx == GetIndex(alignment_data.doc2_topic_index)
           doc1_topic == Lookup(doc1_topic_list, doc1_idx)
           doc2_topic == Lookup(doc2_topic_list, doc2_idx)
       IN  IF doc1_topic \in Exceptions \/ doc2_topic \in Exceptions
           THEN \* except Exception: return []
                /\ caught' = IF doc1_topic \in Exceptions
                             THEN doc1_topic ELSE doc2_topic
                /\ nda_alignments' = <<>>
                /\ npc' = "returned"
                /\ UNCHANGED record_no
           ELSE /\ nda_alignments' =
                      IF doc1_topic = NoTopic /\ doc2_topic = NoTopic
                      THEN nda_alignments
                      ELSE Append(nda_alignments,
                                  [doc1_topic |-> IF doc1_topic = NoTopic
                                                  THEN NotPresent
                                                  ELSE doc1_topic,
                                   doc2_topic |-> IF doc2_topic = NoTopic
                                                  THEN NotPresent
                                                  ELSE doc2_topic,
                                   record |-> record_no + 1])
                /\ record_no' = record_no + 1
                /\ UNCHANGED <<caught, npc>>
    /\ UNCHANGED <<doc1_topic_list, doc2_topic_list, alignments_data>>
    /\ UNCHANGED notNda

\* the loop is over: return alignments
ReturnAlignments ==
    /\ npc = "loop"
    /\ record_no >= Len(alignments_data)
    /\ npc' = "returned"
    /\ UNCHANGED <<doc1_topic_list, doc2_topic_list, alignments_data, record_no,
                   nda_alignments, caught>>
    /\ UNCHANGED notNda

NextNda == AlignRecord \/ ReturnAlignments

SpecNda == InitNda /\ [][NextNda]_vars

(***************************************************************************)
(* The web application (app.py): POST /align                               *)
(***************************************************************************)
ALLOWED_EXTENSIONS == {<<"t", "x", "t">>, <<"p", "d", "f">>}

\* filename.rsplit('.', 1)[1]
Extension(filename) == Slice(filename, rfind(filename, <<".">>) + 1,
                             Len(filename))

allowed_file(filename) ==
    /\ rfind(filename, <<".">>) # 0 - 1
    /\ lower(Extension(filename)) \in ALLOWED_EXTENSIONS

\* extract_text_from_file: "text", or the message of the exception raised
extract_text_from_file(readable, filename) ==
    IF EndsWith(filename, <<".", "t", "x", "t">>)
    THEN (IF readable THEN "text" ELSE "UnicodeDecodeError")
    ELSE IF EndsWith(filename, <<".", "p", "d", "f">>)
    THEN (IF readable THEN "text" ELSE "Error extracting PDF")
    ELSE "Unsupported file format"

Filenames ==
    { <<>>,                                        \* no file selected
      <<"a", ".", "t", "x", "t">>,
      <<"a", ".", "T", "X", "T">>,
      <<"a", ".", "p", "d", "f">>,
      <<"a", ".", "P", "d", "f">>,
      <<"a", ".", "d", "o", "c">>,
      <<"t", "x", "t">>,                           \* no dot
      <<"a", ".", "t", "x", "t", ".", "p", "d", "f">>,
      <<"a", ".", "p", "d", "f", ".", "e", "x", "e">> }
NoUpload == [present |-> FALSE, filename |-> <<>>, readable |-> FALSE]
Uploaded ==
    {NoUpload} \cup [present : {TRUE}, filename : Filenames,
                     readable : BOOLEAN]
WebMethods == {"section", "topic_template", "topic_direct", "other"}

WebError(status, error) ==
    [status |-> status, error |-> error, result |-> FALSE]
WebResult == [status |-> 200, error |-> "", result |-> TRUE]
NothingSent == [status |-> 0, error |-> "", result |-> FALSE]

InitWeb ==
    /\ web_key \in {"set", "unset"}
    /\ uploads \in [doc1 : Uploaded, doc2 : Uploaded]
    /\ web_method \in WebMethods
    /\ texts = 0
    /\ dispatched = "none"
    /\ web_response = NothingSent
    /\ wpc = "validate"
    /\ RecoverIdle
    /\ ExtractIdle
    /\ ApiIdle
    /\ DecodeIdle
    /\ ChunkIdle
    /\ BatchIdle
    /\ TopicIdle
    /\ NdaIdle

\* the checks on the key, the files and the filenames
WebValidate ==
    /\ wpc = "validate"
    /\ LET refused ==
               IF web_key = "unset"
               THEN WebError(500, "OpenAI API key not configured")
               ELSE IF ~uploads.doc1.present \/ ~uploads.doc2.present
               THEN WebError(400, "Both documents are required")
               ELSE IF uploads.doc1.filename = <<>>
                       \/ uploads.doc2.filename = <<>>
               THEN WebError(400, "Both documents must be selected")
               ELSE IF ~(allowed_file(uploads.doc1.filename)
                         /\ allowed_file(uploads.doc2.filename))
               THEN WebError(400, "Only TXT and PDF files are allowed")
               ELSE NothingSent
       IN  /\ web_response' = refused
           /\ wpc' = IF refused = NothingSent THEN "extract" ELSE "sent"
    /\ UNCHANGED <<web_key, uploads, web_method, texts, dispatched>>
    /\ UNCHANGED notWeb

\* the two calls of extract_text_from_file; an exception goes to the
\* except branch of align_documents
WebExtract ==
    /\ wpc = "extract"
    /\ LET doc1_text == extract_text_from_file(uploads.doc1.readable,
                                               uploads.doc1.filename)
           doc2_text == extract_text_from_file(uploads.doc2.readable,
                                               uploads.doc2.filename)
       IN  IF doc1_text # "text"
           THEN /\ web_response' = WebError(500, doc1_text)
                /\ texts' = 0
                /\ wpc' = "sent"
           ELSE IF doc2_text # "text"
           THEN /\ web_response' = WebError(500, doc2_text)
                /\ texts' = 1
                /\ wpc' = "sent"
           ELSE /\ texts' = 2
                /\ wpc' = "dispatch"
                /\ UNCHANGED web_response
    /\ UNCHANGED <<web_key, uploads, web_method, dispatched>>
    /\ UNCHANGED notWeb

\* the alignment function of the method is called; it returns a result or
\* raises
WebDispatch ==
    /\ wpc = "dispatch"
    /\ IF web_method \in {"section", "topic_template", "topic_direct"}
       THEN /\ dispatched' = web_method
            /\ \E raised \in BOOLEAN :
                  web_response' = IF raised THEN WebError(500, "exception")
                                  ELSE WebResult
       ELSE /\ web_response' = WebError(400, "Invalid alignment method")
            /\ UNCHANGED dispatched
    /\ wpc' = "sent"
    /\ UNCHANGED <<web_key, uploads, web_method, texts>>
    /\ UNCHANGED notWeb

NextWeb == WebValidate \/ WebExtract \/ WebDispatch

SpecWeb == InitWeb /\ [][NextWeb]_vars

(***************************************************************************)
(* Claims about _try_recover_partial_json (C1 to C4)                       *)
(***************************************************************************)
\* The complete top-level elements of the array text s, read as a JSON
\* reader does (strings are strings): <<first, last>> positions, in order,
\* up to the first element that is cut or malformed.
RECURSIVE ElementSpansFrom(_, _)
ElementSpansFrom(s, i) ==
    LET e == JValue(s, i)
    IN  IF e = 0 THEN <<>>
        ELSE LET j == JSkipWs(s, e)
             IN  <<<<i, e - 1>>>> \o
                 (IF j <= Len(s) /\ s[j] = ","
                  THEN ElementSpansFrom(s, JSkipWs(s, j + 1)) ELSE <<>>)

ElementSpans(s) ==
    IF StartsWith(s, <<"[">>) THEN ElementSpansFrom(s, JSkipWs(s, 2)) ELSE <<>>

IsPrefixOf(a, b) == Len(a) <= Len(b) /\ SubSeq(b, 1, Len(a)) = a

\* number of occurrences of character c in s[1..k]
CountUpTo(s, k, c) == Cardinality({i \in 1..k : s[i] = c})

\* the positions of x the function may cut at: a '}' that brings the count
\* of braces to 0 while the count of brackets is 1
CutMarks(x) ==
    {k \in 1..Len(x) :
        /\ x[k] = "}"
        /\ CountUpTo(x, k, "{") - CountUpTo(x, k, "}") = 0
        /\ CountUpTo(x, k, "[") - CountUpTo(x, k, "]") = 1}

FirstCallReturned == rpc = "returned" /\ calls = 1

\* the array of objects the argument is a cut serialisation of, cut after
\* its first complete object and before its end
IsTruncatedObjectArray(o) ==
    /\ o.kind = "array"
    /\ Len(o.array) >= 1
    /\ \A i \in 1..Len(o.array) : o.array[i] \in Objects
    /\ o.cut >= 1 + Len(o.array[1])
    /\ o.cut < Len(Serialize(o.array))

\* the number of elements of o.array that lie whole before the cut
CompleteCount(o) ==
    SetMax({m \in 0..Len(o.array) :
               Len(<<"[">> \o JoinComma(SubSeq(o.array, 1, m))) <= o.cut})

\* C1 (as claimed): a serialised array of objects cut anywhere after its
\* first complete object is recovered as the array of its complete objects:
\* the argument up to the closing brace of the last complete top-level
\* object, followed by ']'.
C1_TruncatedArrayRecovered ==
    (FirstCallReturned /\ IsTruncatedObjectArray(origin))
        => result = Serialize(SubSeq(origin.array, 1, CompleteCount(origin)))

\* C2: the function returns "" or the argument cut after its last cut mark
\* plus ']'; it returns the latter exactly when the argument starts with '[',
\* has a cut mark and the candidate is valid JSON; and what it returns is an
\* array whose elements are complete top-level elements of the argument.
C2_RecoveredIsValidPrefix ==
    FirstCallReturned =>
        LET x == partial_json
            marks == CutMarks(x)
            candidate == SubSeq(x, 1, SetMax(marks)) \o <<"]">>
            usable == /\ StartsWith(x, <<"[">>)
                      /\ marks # {}
                      /\ json_loads_ok(candidate)
        IN  /\ usable => result = candidate
            /\ ~usable => result = <<>>
            /\ result # <<>> =>
                  /\ json_loads_ok(result)
                  /\ ElementSpans(result) # <<>>
                  /\ IsPrefixOf(ElementSpans(result), ElementSpans(x))

\* C2 witness: a cut array was recovered and lost its cut tail
C2_Witness ==
    /\ FirstCallReturned
    /\ origin.kind = "array"
    /\ result # <<>>
    /\ Len(partial_json) > Len(result)

\* C3 (as claimed): on a well-formed JSON array the function returns a text
\* that parses to an array with the same elements as the argument.
C3_WellFormedArrayKept ==
    (FirstCallReturned /\ origin.kind = "array"
        /\ origin.cut = Len(Serialize(origin.array)))
        => /\ json_loads_ok(result)
           /\ Len(ElementSpans(result)) = Len(origin.array)

\* C4: recover(recover(x)) = recover(x): the second call returns its
\* argument, which is what the first call returned.
C4_Idempotent ==
    (rpc = "returned" /\ calls >= 2) => result = partial_json

\* C4 witness: a second call on a text the first call recovered
C4_Witness ==
    /\ rpc = "returned"
    /\ calls = 2
    /\ result # <<>>
    /\ origin.kind = "array"
    /\ origin.cut < Len(Serialize(origin.array))

(***************************************************************************)
(* Claims about extract_sections (C5 to C10).  The forms of lines are      *)
(* stated here as the claims state them, not as the patterns match them.   *)
(***************************************************************************)
Done(v) == variant = v /\ pc = "done"

\* the members of a set of numbers in ascending order
RECURSIVE Ascending(_)
Ascending(S) ==
    IF S = {} THEN <<>> ELSE <<SetMin(S)>> \o Ascending(S \ {SetMin(S)})

Keys(d) == [i \in 1..Len(d) |-> d[i].key]

\* a digit followed by a period somewhere in the line
ContainsNumbering(l) ==
    \E k \in 1..(Len(l) - 1) : l[k] \in Digit /\ l[k + 1] = "."

\* the line 'N. TITLE': a number, a period, whitespace, and a title that
\* starts with an uppercase letter
BareForm(l) ==
    LET s == strip(l)
        d == RunEnd(s, 1, Digit)
        t == RunEnd(s, d + 1, Whitespace)
    IN  IF d > 1 /\ d < Len(s) /\ s[d] = "." /\ t > d + 1 /\ t <= Len(s)
           /\ s[t] \in Upper
        THEN Match(SubSeq(s, 1, d - 1), From(s, t))
        ELSE NoMatch

\* the line '**N. TITLE**'
BoldForm(l) ==
    LET s == strip(l)
        n == Len(s)
        d == RunEnd(s, 3, Digit)
    IN  IF n >= 7 /\ SubSeq(s, 1, 2) = <<"*", "*">>
           /\ SubSeq(s, n - 1, n) = <<"*", "*">>
           /\ d > 3 /\ d + 2 <= n - 2 /\ s[d] = "." /\ s[d + 1] = " "
           /\ s[d + 2] \notin Whitespace
        THEN Match(SubSeq(s, 3, d - 1), SubSeq(s, d + 2, n - 2))
        ELSE NoMatch

\* the line 'N.M[.K...] <text>'
DottedForm(l) ==
    LET s == strip(l)
        sp == {k \in 1..Len(s) : s[k] \in Whitespace}
    IN  IF sp # {} /\ IsSubNumber(SubSeq(s, 1, SetMin(sp) - 1))
        THEN Match(SubSeq(s, 1, SetMin(sp) - 1), From(s, SetMin(sp) + 1))
        ELSE NoMatch

\* a title made of uppercase letters, whitespace, '-' and '/' only, of two
\* characters or more
IsCapsTitle(t) ==
    Len(t) >= 2 /\ t[1] \in Upper /\ AllIn(t, 2, Len(t), LegalTitleChar)

\* ------------------------------------------------------------------ C5
\* a heading line of C5: 'N. Title', Title capitalised, 3 to 100 characters
IsC5Heading(l) ==
    /\ BareForm(l).ok
    /\ Len(BareForm(l).title) >= 3
    /\ Len(BareForm(l).title) <= 100

C5Headings == {i \in 1..Len(lines) : IsC5Heading(lines[i])}

\* the document of C5: it starts with a heading, the numbers of its
\* headings are distinct and no other line holds a numbered pattern
IsC5Document ==
    /\ 1 \in C5Headings
    /\ \A i \in 1..Len(lines) :
          i \in C5Headings \/ ~ContainsNumbering(lines[i])
    /\ \A i, j \in C5Headings :
          BareForm(lines[i]).num = BareForm(lines[j]).num => i = j

\* the lines between heading i and the next heading (or the end)
C5BodyLines(i) ==
    LET later == {j \in C5Headings : j > i}
        last == IF later = {} THEN Len(lines) ELSE SetMin(later) - 1
    IN  SubSeq(lines, i + 1, last)

C5Expected(body(_)) ==
    LET hs == Ascending(C5Headings)
    IN  [k \in 1..Len(hs) |->
            [key |-> BareForm(lines[hs[k]]).num,
             title |-> BareForm(lines[hs[k]]).title,
             body |-> body(C5BodyLines(hs[k]))]]

StrippedLines(ls) == [k \in 1..Len(ls) |-> strip(ls[k])]
C5StrippedBody(ls) == strip(JoinLines(StrippedLines(ls)))

\* C5 (as claimed): for K bare headings with distinct numbers, each followed
\* by body lines without numbered pattern, the topic extractor returns K
\* entries in document order, entry N being (Title, the body lines joined by
\* newlines).
C5_BareHeadingsBodiesVerbatim ==
    (Done("topic") /\ IsC5Document) => sections = C5Expected(JoinLines)

\* C5 (amended): the same, the body of entry N being the body lines each
\* stripped of surrounding whitespace, joined by newlines, and the joined
\* text stripped.
C5_BareHeadingsBodiesStripped ==
    (Done("topic") /\ IsC5Document) => sections = C5Expected(C5StrippedBody)

\* C5 witness: two headings, the first with a body line
C5_Witness ==
    /\ Done("topic")
    /\ IsC5Document
    /\ Len(sections) = 2
    /\ sections[1].body # <<>>

\* ------------------------------------------------------------------ C6
NothingOpened == \A k \in 1..Len(log) : log[k].kind # "open"

\* C6 (as claimed): when no line matches a heading pattern, and the loose
\* numbered-line fallback finds nothing either, the result is exactly one
\* section that covers the whole input.
C6_WholeDocumentSection ==
    (pc = "done" /\ NothingOpened /\ strip(document) # <<>>
        /\ (variant = "topic" => FallbackFrom(lines, 1, <<>>) = <<>>))
        => /\ Len(sections) = 1
           /\ sections[1].body = strip(document)

\* ------------------------------------------------------------------ C7
BoldHeadings == {i \in 1..Len(lines) : BoldForm(lines[i]).ok}

BoldNumbersDistinct ==
    \A i, j \in BoldHeadings :
        BoldForm(lines[i]).num = BoldForm(lines[j]).num => i = j

BoldNumbers ==
    LET hs == Ascending(BoldHeadings)
    IN  [k \in 1..Len(hs) |-> BoldForm(lines[hs[k]]).num]

\* the document of C7: its headings are bold-numbered ones with distinct
\* numbers, and no other line holds a numbered pattern
IsC7Document ==
    /\ BoldHeadings # {}
    /\ BoldNumbersDistinct
    /\ \A i \in 1..Len(lines) :
          i \in BoldHeadings \/ ~ContainsNumbering(lines[i])

\* C7 (as claimed): a document with N distinctly numbered headings of the
\* form **N. TITLE** yields exactly N entries, in document order, in both
\* extractors.
C7_BoldHeadingsCounted ==
    (pc = "done" /\ IsC7Document) => Keys(sections) = BoldNumbers

\* C7 (amended): topic_alignment.py does so for every TITLE; alignment.py
\* does so when every TITLE is made only of uppercase letters, whitespace,
\* '-' and '/' (two characters or more).
C7_BoldHeadingsCountedCaps ==
    (/\ pc = "done"
     /\ IsC7Document
     /\ variant = "legal" =>
           \A i \in BoldHeadings : IsCapsTitle(BoldForm(lines[i]).title))
        => Keys(sections) = BoldNumbers

\* C7 witness: two bold headings and a body line, in alignment.py
C7_Witness ==
    /\ Done("legal")
    /\ IsC7Document
    /\ Cardinality(BoldHeadings) = 2
    /\ Len(lines) = 3
    /\ \A i \in BoldHeadings : IsCapsTitle(BoldForm(lines[i]).title)
    /\ Len(sections) = 2

\* ------------------------------------------------------------------ C8
Opened == {k \in 1..Len(log) : log[k].kind = "open"}

\* s occurs in t as a run of consecutive characters
OccursIn(s, t) ==
    \E k \in 0..(Len(t) - Len(s)) : SubSeq(t, k + 1, k + Len(s)) = s

\* C8 (as claimed): the text of every non-blank line read before the first
\* heading is in the first (synthetic, leading) section of the result.
C8_LeadingTextKept ==
    (pc = "done" /\ Opened # {}) =>
        \A k \in 1..(SetMin(Opened) - 1) :
            strip(lines[log[k].line]) # <<>> =>
                OccursIn(strip(lines[log[k].line]), sections[1].body)

\* ------------------------------------------------------------------ C9
OpensAs(entry, form) ==
    entry.kind = "open" /\ entry.key = form.num /\ entry.title = form.title

C10_DottedLineOpens ==
    variant = "legal" =>
        \A k \in 1..Len(log) :
            DottedForm(lines[log[k].line]).ok =>
                /\ log[k].kind = "open"
                /\ log[k].key = DottedForm(lines[log[k].line]).num

\* C10 (amended): it does when a section is open, that is when a main
\* heading came before it; before any main heading the line opens nothing
\* and is dropped.
C10_DottedLineOpensInSection ==
    variant = "legal" =>
        \A k \in 1..Len(log) :
            DottedForm(lines[log[k].line]).ok =>
                IF \E j \in 1..(k - 1) : log[j].kind = "open"
                THEN /\ log[k].kind = "open"
                     /\ log[k].key = DottedForm(lines[log[k].line]).num
                ELSE log[k].kind = "drop"

\* C10 witness: a dotted line opened a subsection after a main heading
C10_Witness ==
    /\ Done("legal")
    /\ \E k \in 2..Len(log) :
          /\ DottedForm(lines[log[k].line]).ok
          /\ log[k].kind = "open"
          /\ log[k - 1].kind = "open"
          /\ \E i \in 1..Len(sections) : sections[i].key = log[k].key

(***************************************************************************)
(* Claims about the titles of subsections (C11)                            *)
(***************************************************************************)
\* the term X of a text that starts with "X": or **X**:
LeadingTerm(t) ==
    LET q == IF Len(t) >= 1 /\ t[1] = "\"" THEN 1
             ELSE IF Len(t) >= 2 /\ t[1] = "*" /\ t[2] = "*" THEN 2 ELSE 0
        e == SetMin({j \in (q + 1)..(Len(t) + 1) :
                        j = Len(t) + 1 \/ t[j] \in QuoteOrStar \cup {":"}})
    IN  IF /\ q > 0
           /\ e > q + 1
           /\ e + q <= Len(t)
           /\ SubSeq(t, e, e + q - 1) = SubSeq(t, 1, q)
           /\ t[e + q] = ":"
        THEN [ok |-> TRUE, term |-> SubSeq(t, q + 1, e - 1)]
        ELSE [ok |-> FALSE, term |-> <<>>]

\* the subsections that LegalDocumentAligner.extract_sections opened
SubsectionsOpened ==
    {k \in 1..Len(log) : /\ log[k].kind = "open"
                         /\ DottedForm(lines[log[k].line]).ok}

\* C11: in LegalDocumentAligner.extract_sections the title of a subsection
\* 'N.M <text>' is the leading quoted or bold term before a colon when the
\* text starts with one; otherwise it is at most the first 50 characters of
\* the text, followed by '...' when the text is longer.
C11_SubsectionTitleBounded ==
    variant = "legal" =>
        \A k \in SubsectionsOpened :
            LET text == strip(DottedForm(lines[log[k].line]).title)
                title == log[k].title
            IN  IF LeadingTerm(text).ok
                THEN title = LeadingTerm(text).term
                ELSE title = IF Len(text) > 50
                             THEN SubSeq(text, 1, 50) \o <<".", ".", ".">>
                             ELSE text

(***************************************************************************)
(* Claims about TopicBasedAligner.extract_sections' in-line match (C12)    *)
(***************************************************************************)
\* the lines of the document that match a line-start heading pattern
\* (patterns 1 and 2)
LineStartHeadings ==
    {i \in 1..Len(lines) : TopicEarlyMatch(strip(lines[i])).ok}

\* the sections opened by a line that matches no line-start pattern, that
\* is by the in-line match (pattern 3)
OpenedInLine ==
    {k \in 1..Len(log) : /\ log[k].kind = "open"
                         /\ log[k].line \notin LineStartHeadings}

\* C12: in a document where at least one line matches a line-start heading
\* pattern, TopicBasedAligner.extract_sections never opens a section by an
\* in-line match.
C12_InLineOnlyAsFallback ==
    (variant = "topic" /\ pc # "start" /\ LineStartHeadings # {})
        => OpenedInLine = {}

(***************************************************************************)
(* Claims about identifiers opened more than once (C13)                    *)
(***************************************************************************)
\* the identifiers of the log entries K (a set of positions), each one once,
\* in the order of its first occurrence
RECURSIVE FirstOccurrences(_)
FirstOccurrences(K) ==
    IF K = {} THEN <<>>
    ELSE LET k == SetMin(K)
         IN  <<log[k].key>>
                 \o FirstOccurrences({j \in K : log[j].key # log[k].key})

\* the last time the identifier was opened
LastOpened(key) == SetMax({k \in Opened : log[k].key = key})

\* the text that the lines after the heading of log entry k, up to the next
\* heading, add to its section: each one stripped, blank lines kept by
\* topic_alignment.py only
RECURSIVE LinesOf(_)
LinesOf(k) ==
    IF k > Len(log) \/ log[k].kind = "open" THEN <<>>
    ELSE IF log[k].kind = "blank" /\ variant = "legal" THEN LinesOf(k + 1)
    ELSE <<strip(lines[log[k].line])>> \o LinesOf(k + 1)

\* the text that the heading line itself gives to the body: the remaining
\* content of a subsection of alignment.py
HeadingContent(k) ==
    IF variant = "legal" /\ DottedForm(lines[log[k].line]).ok
    THEN SubsectionStart(strip(DottedForm(lines[log[k].line]).title)).content
    ELSE <<>>

OccurrenceBody(k) == strip(JoinLines(HeadingContent(k) \o LinesOf(k + 1)))

\* C13: the returned map holds one entry per identifier opened, in the
\* order of the identifiers' first occurrences, and the entry of an
\* identifier opened more than once carries the title and the body of its
\* last occurrence.
C13_LastWriterWins ==
    (pc = "done" /\ Opened # {}) =>
        /\ Keys(sections) = FirstOccurrences(Opened)
        /\ \A i \in 1..Len(sections) :
              LET k == LastOpened(sections[i].key)
              IN  /\ sections[i].title = log[k].title
                  /\ sections[i].body = OccurrenceBody(k)

\* an identifier opened twice with another one in between, the two
\* occurrences differing in title
C13_Witness ==
    /\ pc = "done"
    /\ \E k1, k2, k3 \in Opened :
          /\ k1 < k2 /\ k2 < k3
          /\ log[k1].key = log[k3].key
          /\ log[k2].key # log[k1].key
          /\ log[k1].title # log[k3].title

(***************************************************************************)
(* Claims about the order of processing (C14)                              *)
(***************************************************************************)
\* the section that is open has been stored as it stands
StoredNext ==
    \E i \in 1..Len(sections') :
        sections'[i] = [key |-> current_section, title |-> current_title,
                        body |-> strip(JoinLines(current_content))]

\* a step that takes a non-blank line while a section is open
TakesLine ==
    /\ pc = "loop" /\ idx <= Len(lines) /\ idx' = idx + 1
    /\ current_section # None
    /\ strip(lines[idx]) # <<>>

\* the step opens a section with the line: the one before is stored
OpensNext ==
    /\ Len(log') = Len(log) + 1
    /\ log'[Len(log')].kind = "open"
    /\ log'[Len(log')].line = idx
    /\ current_section' = log'[Len(log')].key
    /\ StoredNext

\* the step appends the line to the section most recently opened
AppendsNext ==
    /\ current_section' = current_section
    /\ current_section = log[SetMax(Opened)].key
    /\ current_content' = Append(current_content, strip(lines[idx]))
    /\ sections' = sections

\* the step that ends the loop while a section is open
EndsInput ==
    pc = "loop" /\ idx > Len(lines) /\ pc' # "loop" /\ current_section # None

\* C14: lines are taken in document order; once a section is open, every
\* following non-blank line either opens a new section, the body so far
\* being stored under the previous identifier at that moment, or is appended
\* to the body of the section most recently opened; the last open section
\* is stored at end of input.
C14_Sequential ==
    [][/\ idx' \in {idx, idx + 1}
       /\ TakesLine => (OpensNext \/ AppendsNext)
       /\ EndsInput => StoredNext]_vars

\* a section was opened, a line appended to it, and another section opened
C14_Witness ==
    /\ pc = "done"
    /\ Len(sections) >= 2
    /\ \E k \in 1..(Len(log) - 2) :
          /\ log[k].kind = "open"
          /\ log[k + 1].kind = "append"
          /\ log[k + 2].kind = "open"

(***************************************************************************)
(* Claims about feeding a body back (C15)                                  *)
(***************************************************************************)
\* the body that was fed back: what follows the heading line and the newline
FedBody == From(document, Len(HeadingLine) + 2)

\* C15: a heading line followed by the body of a section that
\* extract_sections returned, given to the same extractor, yields exactly
\* one section, and its body is that body.
C15_RoundTrip ==
    (pc = "done" /\ IsFedBack) =>
        Len(sections) = 1 /\ sections[1].body = FedBody

(***************************************************************************)
(* Claims about POST /api/align (C16 to C20)                               *)
(***************************************************************************)
\* an alignment function has returned its dict
Aligned == apc \in {"respond", "sent"} /\ invoked.fn # "none"

\* some LLM call of the request raised or returned undecodable text
UpstreamFailed ==
    \E i \in 1..Len(upstream) : upstream[i].outcome \in {"raises", "undecodable"}

\* C16: when an LLM call of the request fails or its output cannot be
\* decoded, the result is never success = true with zero alignments and no
\* error field (for the three methods).
C16_NoSilentEmptySuccess ==
    (Aligned /\ UpstreamFailed) =>
        ~(/\ res.success
          /\ res.alignments_found = 0
          /\ "error" \notin DOMAIN res)

\* C17: a response whose body says success = false is never sent with
\* status 200; a failed LLM call is reported with a 5xx status.
C17_FailureIsNot200 ==
    apc = "sent" =>
        /\ ~(response.status = 200 /\ ~response.body.success)
        /\ (Aligned /\ ~res.success) => response.status >= 500

\* C18: an api_key given in the request, as a form field of a multipart
\* request or as a field of a JSON request, is the key that is used and
\* passed to the alignment function; the environment's key is used only
\* when the request gives none; the request is refused for want of a key
\* only when neither is present.
C18_RequestKeyUsed ==
    (apc # "key" /\ request.kind \in {"multipart", "json"}) =>
        /\ api_key = (IF request.key # Unset THEN request.key ELSE env_key)
        /\ invoked.fn # "none" => invoked.key = api_key
        /\ (apc = "sent" /\ response.status = 400
              /\ response.body.error = "OpenAI API key not provided")
               => (request.key = Unset /\ env_key = Unset)

\* C19: the dict returned by an alignment function of api.py carries
\* method, alignments_found and alignments; alignments is an array and
\* alignments_found is its length; a dict that reports a failure has
\* alignments_found = 0, an empty array and an error field.
C19_ResultShape ==
    Aligned =>
        /\ {"method", "alignments_found", "alignments"} \subseteq DOMAIN res
        /\ res.alignments.type = "array"
        /\ res.alignments_found = res.alignments.len
        /\ ~res.success => /\ res.alignments_found = 0
                           /\ res.alignments = [type |-> "array", len |-> 0]
                           /\ "error" \in DOMAIN res

\* the alignment function of each method id
OwnFunction(m) ==
    IF m = "section" THEN "section_based_alignment"
    ELSE IF m = "topic_template" THEN "topic_template_alignment"
    ELSE "topic_direct_alignment"

\* the method asked for: 'section' when the request names none, and
\* 'section_based' stands for 'section'
AskedMethod ==
    IF request.method \in {"absent", "section_based"} THEN "section"
    ELSE request.method

\* the request has a key and two readable documents
PassesChecks ==
    /\ (IF request.key # Unset /\ request.kind = "json"
        THEN request.key ELSE env_key) # Unset
    /\ request.kind \in {"multipart", "json"}
    /\ request.doc1 = "ok" /\ request.doc2 = "ok"

\* C20: for a request that has a key and two readable documents, every
\* method id listed by GET /api/methods (and 'section_based', and no method
\* at all, both standing for 'section') is routed to its own alignment
\* function; any other method value gets status 400 'Invalid method'; and
\* no request with another method value has an alignment function invoked.
C20_MethodsRouted ==
    /\ (apc = "sent" /\ PassesChecks) =>
          IF AskedMethod \in MethodIds
          THEN /\ invoked.fn = OwnFunction(AskedMethod)
               /\ response.status = 200
          ELSE /\ response.status = 400
               /\ response.body.error = "Invalid method"
    /\ (apc # "idle" /\ AskedMethod \notin MethodIds) => invoked.fn = "none"
    /\ (apc # "idle" /\ invoked.fn # "none")
          => invoked.fn = OwnFunction(AskedMethod)

\* a request for 'section_based' was answered by section_based_alignment
C20_Witness ==
    /\ apc = "sent"
    /\ PassesChecks
    /\ request.method = "section_based"
    /\ invoked.fn = "section_based_alignment"
    /\ response.status = 200

(***************************************************************************)
(* Claims about the decoding of LLM replies (C21, C22)                     *)
(***************************************************************************)
\* the reply is wrapped in a fence that the routine's cleaning strips
FenceStrippingActs ==
    \/ llm_reply.wrapper \in {"json fence", "json fence open", "fence"}
    \/ llm_reply.wrapper = "fence open" /\ routine = "section_based_alignment"

\* the reply has a '[' and a ']'
HasBrackets(s) ==
    (\E i \in 1..Len(s) : s[i] = "[") /\ (\E i \in 1..Len(s) : s[i] = "]")

\* the first '[' to the last ']' of a reply that has both
BracketSpan(s) ==
    SubSeq(s, SetMin({i \in 1..Len(s) : s[i] = "["}),
           SetMax({i \in 1..Len(s) : s[i] = "]"}))

\* the last call of Partial-JSON Recovery returned nothing
RecoveryReturnedNothing ==
    Len(recovery) > 0 /\ recovery[Len(recovery)] = <<>>

\* C21: every routine that decodes a reply expected to be a JSON array
\* cleans it first (fences stripped, otherwise the first '[' to the last ']'
\* taken), calls Partial-JSON Recovery when decoding the cleaned text fails,
\* gives up only after recovery returned nothing, and decodes the recovered
\* array when recovery returned one.
C21_RecoveryBeforeFailure ==
    routine \in ArrayRoutines /\ dpc = "done" =>
        /\ llm_reply.wrapper = "prose" /\ HasBrackets(Content(llm_reply)) =>
               json_str = BracketSpan(Content(llm_reply))
        /\ decoded = "failed" => RecoveryReturnedNothing
        /\ decoded = "recovered_json" =>
               Len(recovery) > 0 /\ recovery[Len(recovery)] # <<>>
        /\ ~json_loads_ok(json_str)
               /\ try_recover_partial_json(json_str) # <<>>
               => decoded = "recovered_json"

\* C22: stripping a fence removes no character of the payload: the text
\* handed to json.loads is the payload between the opening and the closing
\* fence, trimmed, or all that follows the opening fence when the closing
\* fence is missing.
C22_FenceKeepsPayload ==
    routine \in {"align_sections", "section_based_alignment",
                 "compare_section_content"}
        /\ dpc \in {"decode", "done"} /\ FenceStrippingActs
        => json_str = strip(Payload(llm_reply))

(***************************************************************************)
(* Claims about chunk_document (C23, C24)                                  *)
(***************************************************************************)
\* C23: chunk_document returns for every document and every configuration
\* with chunk_size > 0 and overlap_size >= 0: every pass of its loop moves
\* start_idx forward, and the call returns in the end.
C23_Terminates ==
    /\ [][cpc = "loop" /\ cpc' = "loop" => start_idx' > start_idx]_vars
    /\ <>(cpc = "returned")

\* the words of a chunk
ChunkWords(c) == SplitWords(c.chunk_content)

\* the chunk is a run of consecutive words of the document that starts at
\* word k
RunAt(c, k) ==
    /\ k + Len(ChunkWords(c)) - 1 <= Len(words)
    /\ ChunkWords(c) = SubSeq(words, k, k + Len(ChunkWords(c)) - 1)

\* the chunks, in order, are runs of the document that start at
\* non-decreasing positions
RECURSIVE InDocumentOrder(_, _)
InDocumentOrder(i, from) ==
    IF i > Len(chunks) THEN TRUE
    ELSE \E k \in from..(Len(words) + 1) :
            RunAt(chunks[i], k) /\ InDocumentOrder(i + 1, k)

\* C24: in the loop of chunk_document the chunk ids are 0, 1, 2, ... in
\* order and no chunk has more than chunk_size words; on return every word
\* of the document is in a chunk and the chunks cover the words in document
\* order.
C24_ChunksCoverInOrder ==
    cpc \in {"loop", "returned"} =>
        /\ \A i \in 1..Len(chunks) :
              /\ chunks[i].chunk_id = i - 1
              /\ Len(ChunkWords(chunks[i])) <= chunk_size
        /\ cpc = "returned" =>
              /\ \A k \in 1..Len(words) : \E i \in 1..Len(chunks) :
                    \E j \in 1..Len(ChunkWords(chunks[i])) :
                        ChunkWords(chunks[i])[j] = words[k]
              /\ InDocumentOrder(1, 1)

\* a call has returned several chunks
C24_Witness ==
    cpc = "returned" /\ Len(chunks) >= 2 /\ Len(words) > chunk_size

(***************************************************************************)
(* Claim about the lenient pattern of the topic variant (C25)              *)
(***************************************************************************)
\* the lines taken so far that only the lenient in-line pattern matches
LenientOnly ==
    {k \in 1..Len(log) :
        /\ strip(lines[log[k].line]) # <<>>
        /\ ~TopicEarlyMatch(strip(lines[log[k].line])).ok
        /\ TopicLoose(strip(lines[log[k].line])).ok}

\* the title the lenient pattern captured on the line of log entry k
Captured(k) == TopicLoose(strip(lines[log[k].line])).title

\* C25: in TopicBasedAligner.extract_sections a line matched only by the
\* lenient in-line pattern opens a section only if the captured title is
\* shorter than 100 characters and does not start with 'the ' in any case;
\* otherwise the line is no header and goes to the body of the current
\* section.
C25_LenientHeaderChecked ==
    variant = "topic" =>
        \A k \in LenientOnly :
            IF Len(Captured(k)) < 100
               /\ ~StartsWith(lower(Captured(k)), <<"t", "h", "e", " ">>)
            THEN log[k].kind = "open"
            ELSE log[k].kind \in {"append", "drop"}

(***************************************************************************)
(* Claims about run_full_alignment and run_batch_evaluation (C26, C27)     *)
(***************************************************************************)
\* C26: run_full_alignment lets no exception caused by upstream output
\* leave it: a mapping that names a section missing from the extracted
\* sections is caught and turned into a result.
C26_NoExceptionFromUpstream ==
    bpc # "idle" => alignment.kind \in {"not run", "None", "AlignmentResult"}

\* the numbers of the pairs, in processing order from pair k on, whose
\* alignment succeeded
RECURSIVE AlignedPairs(_)
AlignedPairs(k) ==
    IF k > Len(outcomes) THEN <<>>
    ELSE (IF outcomes[k] = "aligned" THEN <<k>> ELSE <<>>)
             \o AlignedPairs(k + 1)

\* C27: run_batch_evaluation returns normally for every num_pairs >= 0 and
\* every combination of successes and failures of the pairs, and the list
\* it returns holds one EvaluationScore for each pair whose alignment
\* succeeded, in processing order.
C27_BatchAlwaysReturns ==
    /\ bpc # "raised"
    /\ bpc = "returned" =>
          /\ Len(evaluation_scores) = Len(AlignedPairs(1))
          /\ \A k \in 1..Len(evaluation_scores) :
                evaluation_scores[k].pair_id = AlignedPairs(1)[k]

(***************************************************************************)
(* Claim about TopicBasedAligner.align_topics (C28)                        *)
(***************************************************************************)
\* 1 for a topic of both documents, 2 for one only in the original, 3 for
\* one only in the variant
GroupOf(name) ==
    IF name \in DictKeys(original_topics) /\ name \in DictKeys(variant_topics)
    THEN 1
    ELSE IF name \in DictKeys(original_topics) THEN 2 ELSE 3

\* C28: align_topics returns one TopicAlignment for each distinct topic name
\* of either document: first the topics of both documents, with confidence
\* 'high' when both section lists are non-empty and 'low' otherwise, then
\* the topics only in the original, with no variant sections and 'low',
\* then the topics only in the variant; 'medium' is never produced.
C28_OneAlignmentPerTopic ==
    tpc = "returned" =>
        /\ {alignments[k].topic_name : k \in 1..Len(alignments)}
               = DictKeys(original_topics) \cup DictKeys(variant_topics)
        /\ \A j, k \in 1..Len(alignments) :
              /\ j # k => alignments[j].topic_name # alignments[k].topic_name
              /\ j < k => GroupOf(alignments[j].topic_name)
                              <= GroupOf(alignments[k].topic_name)
        /\ \A k \in 1..Len(alignments) :
              LET a == alignments[k]
              IN  /\ a.alignment_confidence # "medium"
                  /\ GroupOf(a.topic_name) = 1 =>
                        a.alignment_confidence =
                            IF a.original_sections # <<>>
                               /\ a.variant_sections # <<>>
                            THEN "high" ELSE "low"
                  /\ GroupOf(a.topic_name) = 2 =>
                        /\ a.variant_sections = <<>>
                        /\ a.alignment_confidence = "low"
                  /\ GroupOf(a.topic_name) = 3 =>
                        /\ a.original_sections = <<>>
                        /\ a.alignment_confidence = "low"

\* a call has returned alignments of all three groups, the common topic
\* having sections in one document only
C28_Witness ==
    /\ tpc = "returned"
    /\ Len(alignments) = 3
    /\ GroupOf(alignments[1].topic_name) = 1
    /\ alignments[1].original_sections # <<>>
    /\ alignments[1].variant_sections = <<>>
    /\ GroupOf(alignments[2].topic_name) = 2
    /\ GroupOf(alignments[3].topic_name) = 3

(***************************************************************************)
(* Claim about nda_direct_alignment.align_topics (C29)                     *)
(***************************************************************************)
\* the index names a topic of the list
NamesTopic(index, topics) ==
    index.kind = "int" /\ index.value >= 0 /\ index.value < Len(topics)

\* the topic named, or the placeholder
Side(index, topics) ==
    IF NamesTopic(index, topics) THEN topics[index.value + 1]
    ELSE "[Not Present]"

\* C29: align_topics of nda_direct_alignment never indexes a topic list out
\* of range and lets no exception out: an index that is -1, otherwise
\* negative or not smaller than the length of the list is 'no topic'; a
\* record with no topic on either side is skipped, a record with a topic on
\* one side gets the placeholder '[Not Present]' on the other; every
\* alignment returned has a real topic on at least one side, and there are
\* at most as many alignments as records.
C29_IndicesGuarded ==
    npc \in {"loop", "returned"} =>
        /\ caught # "IndexError"
        /\ Len(nda_alignments) <= Len(alignments_data)
        /\ \A k \in 1..Len(nda_alignments) :
              LET a == nda_alignments[k]
                  r == alignments_data[a.record]
              IN  /\ \/ NamesTopic(r.doc1_topic_index, doc1_topic_list)
                     \/ NamesTopic(r.doc2_topic_index, doc2_topic_list)
                  /\ a.doc1_topic = Side(r.doc1_topic_index, doc1_topic_list)
                  /\ a.doc2_topic = Side(r.doc2_topic_index, doc2_topic_list)
                  /\ k > 1 => nda_alignments[k - 1].record < a.record
        /\ caught = "none" =>
              {nda_alignments[k].record : k \in 1..Len(nda_alignments)}
                  = {n \in 1..record_no :
                        \/ NamesTopic(alignments_data[n].doc1_topic_index,
                                      doc1_topic_list)
                        \/ NamesTopic(alignments_data[n].doc2_topic_index,
                                      doc2_topic_list)}

\* a call has returned: one record was skipped, the other has index -1 on
\* the side of document 1 and got the placeholder there
C29_Witness ==
    /\ npc = "returned"
    /\ caught = "none"
    /\ Len(alignments_data) = 2
    /\ Len(nda_alignments) = 1
    /\ alignments_data[nda_alignments[1].record].doc1_topic_index
           = [kind |-> "int", value |-> 0 - 1]
    /\ nda_alignments[1].doc1_topic = "[Not Present]"

(***************************************************************************)
(* Claim about the web application (C30)                                   *)
(***************************************************************************)
\* both uploads are there and their filenames pass allowed_file
BothAccepted ==
    /\ web_key = "set"
    /\ uploads.doc1.present /\ uploads.doc2.present
    /\ allowed_file(uploads.doc1.filename)
    /\ allowed_file(uploads.doc2.filename)

\* C30: in POST /align every pair of uploads whose filenames pass
\* allowed_file (extension txt or pdf in any case) is text-extracted and
\* dispatched to the selected alignment method; an upload that allowed_file
\* accepted is never rejected afterwards with 'Unsupported file format'.
C30_AcceptedIsExtracted ==
    wpc = "sent" /\ BothAccepted =>
        /\ web_response.error # "Unsupported file format"
        /\ uploads.doc1.readable /\ uploads.doc2.readable =>
              /\ texts = 2
              /\ web_method # "other" => dispatched = web_method
====
